---- MODULE Spec2Model ----
(***************************************************************************)
(* Progressive loading and location resolution of the GitHub developers    *)
(* world map (app.js).  The browser runs the page's callbacks one at a     *)
(* time; a callback runs until it suspends on a fetch or on a timer        *)
(* (delay), so every action below is one run of a callback from one        *)
(* suspension point to the next.  Awaits that resolve within the same      *)
(* microtask checkpoint (an async function that returns without fetching   *)
(* or sleeping, Promise.all over settled promises) do not let another      *)
(* callback in and are part of the same action.                            *)
(*                                                                         *)
(* Coordinates are integers in units of 1e-4 degree; strings are sequences *)
(* of character codes, so that toLowerCase, trim and includes are computed *)
(* and not assumed.                                                        *)
(***************************************************************************)
EXTENDS Integers, Sequences, FiniteSets, TLC

Null == [null |-> TRUE]   \* JavaScript null / undefined / a missing field

(***************************************************************************)
(* LOADING_CONFIG (app.js 11-20)                                           *)
(***************************************************************************)
initialBatches == 2
batchesPerZoomLevel == 1
maxBatches == 10
developersPerView == 100
minZoomForMore == 5
showAllBelow == 100      \* getDevelopersInBounds: totalDevelopers < 100
showAllCap == 200        \* getDevelopersInBounds: Math.min(totalDevelopers, 200)
geocodeBatchSize == 5    \* updateMapMarkers: const batchSize = 5
markerPauseEvery == 10   \* updateMapMarkers: markerCount % 10 === 0
fallbackGeocodeLimit == 20   \* loadInitialData: developers.slice(0, 20)
fallbackPauseEvery == 3      \* loadInitialData: geocoded % 3 === 0
mapMaxZoom == 18         \* initMap: maxZoom of the tile layer
boundsPadPercent == 20   \* getDevelopersInBounds: bounds.pad(0.2)

(***************************************************************************)
(* Bounds of the model                                                     *)
(***************************************************************************)
MaxTasks == 3            \* callbacks started in one session (page load included)
TotalBatches == 3        \* index.total_batches of the data source
MaxFaults == 1           \* loads of a data file (a batch, the single file) that fail in one session
MaxRunning == 2          \* callbacks suspended at an await at one time
MaxStore == 500          \* developers of the largest store getDevelopersInBounds is called on

(***************************************************************************)
(* Strings                                                                 *)
(***************************************************************************)
Whitespace == {9, 10, 11, 12, 13, 32, 160}

\* String.prototype.toLowerCase, for ASCII and Latin-1 letters
LowerChar(c) ==
    IF (c >= 65 /\ c <= 90) \/ (c >= 192 /\ c <= 222 /\ c # 215) THEN c + 32 ELSE c

toLowerCase(s) == [i \in 1..Len(s) |-> LowerChar(s[i])]

\* String.prototype.trim
trim(s) ==
    LET keep == {i \in 1..Len(s) : s[i] \notin Whitespace}
    IN  IF keep = {} THEN << >>
        ELSE LET lo == CHOOSE i \in keep : \A j \in keep : i <= j
                 hi == CHOOSE i \in keep : \A j \in keep : i >= j
             IN  SubSeq(s, lo, hi)

\* String.prototype.includes
includes(s, sub) ==
    \E k \in 0..(Len(s) - Len(sub)) : \A j \in 1..Len(sub) : s[k + j] = sub[j]

MAJOR_LOCATIONS == <<
    [lat |-> 377749, lng |-> -1224194, aliases |-> << <<115, 102>>, <<115, 97, 110, 32, 102, 114, 97, 110, 99, 105, 115, 99, 111>>, <<98, 97, 121, 32, 97, 114, 101, 97>> >>],  \* San Francisco: sf / san francisco / bay area
    [lat |-> 407128, lng |-> -740060, aliases |-> << <<110, 121, 99>>, <<110, 101, 119, 32, 121, 111, 114, 107>>, <<109, 97, 110, 104, 97, 116, 116, 97, 110>>, <<98, 114, 111, 111, 107, 108, 121, 110>> >>],  \* New York: nyc / new york / manhattan / brooklyn
    [lat |-> 515074, lng |-> -1278, aliases |-> << <<108, 111, 110, 100, 111, 110>>, <<117, 107>>, <<117, 110, 105, 116, 101, 100, 32, 107, 105, 110, 103, 100, 111, 109>> >>],  \* London: london / uk / united kingdom
    [lat |-> 525200, lng |-> 134050, aliases |-> << <<98, 101, 114, 108, 105, 110>>, <<103, 101, 114, 109, 97, 110, 121>> >>],  \* Berlin: berlin / germany
    [lat |-> 356762, lng |-> 1396503, aliases |-> << <<116, 111, 107, 121, 111>>, <<106, 97, 112, 97, 110>> >>],  \* Tokyo: tokyo / japan
    [lat |-> 476062, lng |-> -1223321, aliases |-> << <<115, 101, 97, 116, 116, 108, 101>>, <<119, 97, 115, 104, 105, 110, 103, 116, 111, 110>> >>],  \* Seattle: seattle / washington
    [lat |-> 302672, lng |-> -977431, aliases |-> << <<97, 117, 115, 116, 105, 110>>, <<116, 101, 120, 97, 115>> >>],  \* Austin: austin / texas
    [lat |-> 423601, lng |-> -710589, aliases |-> << <<98, 111, 115, 116, 111, 110>>, <<109, 97, 115, 115, 97, 99, 104, 117, 115, 101, 116, 116, 115>> >>],  \* Boston: boston / massachusetts
    [lat |-> 436532, lng |-> -793832, aliases |-> << <<116, 111, 114, 111, 110, 116, 111>>, <<99, 97, 110, 97, 100, 97>> >>],  \* Toronto: toronto / canada
    [lat |-> 523676, lng |-> 49041, aliases |-> << <<97, 109, 115, 116, 101, 114, 100, 97, 109>>, <<110, 101, 116, 104, 101, 114, 108, 97, 110, 100, 115>> >>],  \* Amsterdam: amsterdam / netherlands
    [lat |-> 488566, lng |-> 23522, aliases |-> << <<112, 97, 114, 105, 115>>, <<102, 114, 97, 110, 99, 101>> >>],  \* Paris: paris / france
    [lat |-> 13521, lng |-> 1038198, aliases |-> << <<115, 105, 110, 103, 97, 112, 111, 114, 101>> >>],  \* Singapore: singapore
    [lat |-> -338688, lng |-> 1512093, aliases |-> << <<115, 121, 100, 110, 101, 121>>, <<97, 117, 115, 116, 114, 97, 108, 105, 97>> >>],  \* Sydney: sydney / australia
    [lat |-> 190760, lng |-> 728777, aliases |-> << <<109, 117, 109, 98, 97, 105>>, <<98, 111, 109, 98, 97, 121>>, <<105, 110, 100, 105, 97>> >>],  \* Mumbai: mumbai / bombay / india
    [lat |-> 129716, lng |-> 775946, aliases |-> << <<98, 97, 110, 103, 97, 108, 111, 114, 101>>, <<98, 101, 110, 103, 97, 108, 117, 114, 117>>, <<105, 110, 100, 105, 97>> >>]  \* Bangalore: bangalore / bengaluru / india
  >>

cityPatterns == <<
    [pattern |-> <<115, 97, 110, 32, 102, 114, 97, 110, 99, 105, 115, 99, 111>>, lat |-> 377749, lng |-> -1224194],  \* san francisco
    [pattern |-> <<110, 101, 119, 32, 121, 111, 114, 107>>, lat |-> 407128, lng |-> -740060],  \* new york
    [pattern |-> <<108, 111, 110, 100, 111, 110>>, lat |-> 515074, lng |-> -1278],  \* london
    [pattern |-> <<98, 101, 114, 108, 105, 110>>, lat |-> 525200, lng |-> 134050],  \* berlin
    [pattern |-> <<116, 111, 107, 121, 111>>, lat |-> 356762, lng |-> 1396503],  \* tokyo
    [pattern |-> <<112, 97, 114, 105, 115>>, lat |-> 488566, lng |-> 23522],  \* paris
    [pattern |-> <<115, 101, 97, 116, 116, 108, 101>>, lat |-> 476062, lng |-> -1223321],  \* seattle
    [pattern |-> <<98, 111, 115, 116, 111, 110>>, lat |-> 423601, lng |-> -710589],  \* boston
    [pattern |-> <<99, 104, 105, 99, 97, 103, 111>>, lat |-> 418781, lng |-> -876298],  \* chicago
    [pattern |-> <<97, 117, 115, 116, 105, 110>>, lat |-> 302672, lng |-> -977431],  \* austin
    [pattern |-> <<116, 111, 114, 111, 110, 116, 111>>, lat |-> 436532, lng |-> -793832],  \* toronto
    [pattern |-> <<118, 97, 110, 99, 111, 117, 118, 101, 114>>, lat |-> 492827, lng |-> -1231207],  \* vancouver
    [pattern |-> <<115, 121, 100, 110, 101, 121>>, lat |-> -338688, lng |-> 1512093],  \* sydney
    [pattern |-> <<109, 101, 108, 98, 111, 117, 114, 110, 101>>, lat |-> -378136, lng |-> 1449631],  \* melbourne
    [pattern |-> <<97, 109, 115, 116, 101, 114, 100, 97, 109>>, lat |-> 523676, lng |-> 49041],  \* amsterdam
    [pattern |-> <<115, 116, 111, 99, 107, 104, 111, 108, 109>>, lat |-> 593293, lng |-> 180686],  \* stockholm
    [pattern |-> <<99, 111, 112, 101, 110, 104, 97, 103, 101, 110>>, lat |-> 556761, lng |-> 125683],  \* copenhagen
    [pattern |-> <<104, 101, 108, 115, 105, 110, 107, 105>>, lat |-> 601699, lng |-> 249384],  \* helsinki
    [pattern |-> <<111, 115, 108, 111>>, lat |-> 599139, lng |-> 107522],  \* oslo
    [pattern |-> <<122, 117, 114, 105, 99, 104>>, lat |-> 473769, lng |-> 85417],  \* zurich
    [pattern |-> <<118, 105, 101, 110, 110, 97>>, lat |-> 482082, lng |-> 163738],  \* vienna
    [pattern |-> <<109, 97, 100, 114, 105, 100>>, lat |-> 404168, lng |-> -37038],  \* madrid
    [pattern |-> <<98, 97, 114, 99, 101, 108, 111, 110, 97>>, lat |-> 413851, lng |-> 21734],  \* barcelona
    [pattern |-> <<114, 111, 109, 101>>, lat |-> 419028, lng |-> 124964],  \* rome
    [pattern |-> <<109, 105, 108, 97, 110>>, lat |-> 454642, lng |-> 91900],  \* milan
    [pattern |-> <<109, 117, 110, 105, 99, 104>>, lat |-> 481351, lng |-> 115820],  \* munich
    [pattern |-> <<104, 97, 109, 98, 117, 114, 103>>, lat |-> 535511, lng |-> 99937],  \* hamburg
    [pattern |-> <<99, 111, 108, 111, 103, 110, 101>>, lat |-> 509375, lng |-> 69603],  \* cologne
    [pattern |-> <<102, 114, 97, 110, 107, 102, 117, 114, 116>>, lat |-> 501109, lng |-> 86821],  \* frankfurt
    [pattern |-> <<109, 111, 115, 99, 111, 119>>, lat |-> 557558, lng |-> 376173],  \* moscow
    [pattern |-> <<115, 116, 32, 112, 101, 116, 101, 114, 115, 98, 117, 114, 103>>, lat |-> 599311, lng |-> 303609],  \* st petersburg
    [pattern |-> <<119, 97, 114, 115, 97, 119>>, lat |-> 522297, lng |-> 210122],  \* warsaw
    [pattern |-> <<112, 114, 97, 103, 117, 101>>, lat |-> 500755, lng |-> 144378],  \* prague
    [pattern |-> <<98, 117, 100, 97, 112, 101, 115, 116>>, lat |-> 474979, lng |-> 190402],  \* budapest
    [pattern |-> <<98, 117, 99, 104, 97, 114, 101, 115, 116>>, lat |-> 444268, lng |-> 261025],  \* bucharest
    [pattern |-> <<115, 111, 102, 105, 97>>, lat |-> 426977, lng |-> 233219],  \* sofia
    [pattern |-> <<97, 116, 104, 101, 110, 115>>, lat |-> 379838, lng |-> 237275],  \* athens
    [pattern |-> <<105, 115, 116, 97, 110, 98, 117, 108>>, lat |-> 410082, lng |-> 289784],  \* istanbul
    [pattern |-> <<97, 110, 107, 97, 114, 97>>, lat |-> 399334, lng |-> 328597],  \* ankara
    [pattern |-> <<116, 101, 108, 32, 97, 118, 105, 118>>, lat |-> 320853, lng |-> 347818],  \* tel aviv
    [pattern |-> <<106, 101, 114, 117, 115, 97, 108, 101, 109>>, lat |-> 317683, lng |-> 352137],  \* jerusalem
    [pattern |-> <<100, 117, 98, 97, 105>>, lat |-> 252048, lng |-> 552708],  \* dubai
    [pattern |-> <<109, 117, 109, 98, 97, 105>>, lat |-> 190760, lng |-> 728777],  \* mumbai
    [pattern |-> <<100, 101, 108, 104, 105>>, lat |-> 287041, lng |-> 771025],  \* delhi
    [pattern |-> <<98, 97, 110, 103, 97, 108, 111, 114, 101>>, lat |-> 129716, lng |-> 775946],  \* bangalore
    [pattern |-> <<98, 101, 110, 103, 97, 108, 117, 114, 117>>, lat |-> 129716, lng |-> 775946],  \* bengaluru
    [pattern |-> <<104, 121, 100, 101, 114, 97, 98, 97, 100>>, lat |-> 173850, lng |-> 784867],  \* hyderabad
    [pattern |-> <<99, 104, 101, 110, 110, 97, 105>>, lat |-> 130827, lng |-> 802707],  \* chennai
    [pattern |-> <<112, 117, 110, 101>>, lat |-> 185204, lng |-> 738567],  \* pune
    [pattern |-> <<98, 101, 105, 106, 105, 110, 103>>, lat |-> 399042, lng |-> 1164074],  \* beijing
    [pattern |-> <<115, 104, 97, 110, 103, 104, 97, 105>>, lat |-> 312304, lng |-> 1214737],  \* shanghai
    [pattern |-> <<115, 104, 101, 110, 122, 104, 101, 110>>, lat |-> 225431, lng |-> 1140579],  \* shenzhen
    [pattern |-> <<103, 117, 97, 110, 103, 122, 104, 111, 117>>, lat |-> 231291, lng |-> 1132644],  \* guangzhou
    [pattern |-> <<104, 97, 110, 103, 122, 104, 111, 117>>, lat |-> 302741, lng |-> 1201551],  \* hangzhou
    [pattern |-> <<115, 101, 111, 117, 108>>, lat |-> 375665, lng |-> 1269780],  \* seoul
    [pattern |-> <<98, 117, 115, 97, 110>>, lat |-> 351796, lng |-> 1290756],  \* busan
    [pattern |-> <<115, 105, 110, 103, 97, 112, 111, 114, 101>>, lat |-> 13521, lng |-> 1038198],  \* singapore
    [pattern |-> <<98, 97, 110, 103, 107, 111, 107>>, lat |-> 137563, lng |-> 1005018],  \* bangkok
    [pattern |-> <<106, 97, 107, 97, 114, 116, 97>>, lat |-> -62088, lng |-> 1068456],  \* jakarta
    [pattern |-> <<109, 97, 110, 105, 108, 97>>, lat |-> 145995, lng |-> 1209842],  \* manila
    [pattern |-> <<107, 117, 97, 108, 97, 32, 108, 117, 109, 112, 117, 114>>, lat |-> 31390, lng |-> 1016869],  \* kuala lumpur
    [pattern |-> <<104, 111, 32, 99, 104, 105, 32, 109, 105, 110, 104>>, lat |-> 108231, lng |-> 1066297],  \* ho chi minh
    [pattern |-> <<104, 97, 110, 111, 105>>, lat |-> 210285, lng |-> 1058542],  \* hanoi
    [pattern |-> <<116, 97, 105, 112, 101, 105>>, lat |-> 250330, lng |-> 1215654],  \* taipei
    [pattern |-> <<104, 111, 110, 103, 32, 107, 111, 110, 103>>, lat |-> 223193, lng |-> 1141694],  \* hong kong
    [pattern |-> <<109, 97, 99, 97, 117>>, lat |-> 221987, lng |-> 1135439]  \* macau
  >>

locationMappings == <<
    [pattern |-> <<117, 115, 97>>, lat |-> 407128, lng |-> -740060],  \* usa
    [pattern |-> <<117, 115>>, lat |-> 407128, lng |-> -740060],  \* us
    [pattern |-> <<117, 110, 105, 116, 101, 100, 32, 115, 116, 97, 116, 101, 115>>, lat |-> 407128, lng |-> -740060],  \* united states
    [pattern |-> <<117, 107>>, lat |-> 515074, lng |-> -1278],  \* uk
    [pattern |-> <<117, 110, 105, 116, 101, 100, 32, 107, 105, 110, 103, 100, 111, 109>>, lat |-> 515074, lng |-> -1278],  \* united kingdom
    [pattern |-> <<101, 110, 103, 108, 97, 110, 100>>, lat |-> 515074, lng |-> -1278],  \* england
    [pattern |-> <<99, 97, 110, 97, 100, 97>>, lat |-> 436532, lng |-> -793832],  \* canada
    [pattern |-> <<98, 114, 97, 115, 105, 108>>, lat |-> -235505, lng |-> -466333],  \* brasil
    [pattern |-> <<98, 114, 97, 122, 105, 108>>, lat |-> -235505, lng |-> -466333],  \* brazil
    [pattern |-> <<99, 104, 105, 110, 97>>, lat |-> 399042, lng |-> 1164074],  \* china
    [pattern |-> <<105, 110, 100, 105, 97>>, lat |-> 129716, lng |-> 775946],  \* india
    [pattern |-> <<106, 97, 112, 97, 110>>, lat |-> 356762, lng |-> 1396503],  \* japan
    [pattern |-> <<103, 101, 114, 109, 97, 110, 121>>, lat |-> 525200, lng |-> 134050],  \* germany
    [pattern |-> <<102, 114, 97, 110, 99, 101>>, lat |-> 488566, lng |-> 23522],  \* france
    [pattern |-> <<97, 117, 115, 116, 114, 97, 108, 105, 97>>, lat |-> -338688, lng |-> 1512093],  \* australia
    [pattern |-> <<110, 101, 116, 104, 101, 114, 108, 97, 110, 100, 115>>, lat |-> 523676, lng |-> 49041],  \* netherlands
    [pattern |-> <<115, 119, 105, 116, 122, 101, 114, 108, 97, 110, 100>>, lat |-> 473769, lng |-> 85417],  \* switzerland
    [pattern |-> <<115, 119, 101, 100, 101, 110>>, lat |-> 593293, lng |-> 180686],  \* sweden
    [pattern |-> <<110, 111, 114, 119, 97, 121>>, lat |-> 599139, lng |-> 107522],  \* norway
    [pattern |-> <<105, 116, 97, 108, 121>>, lat |-> 419028, lng |-> 124964],  \* italy
    [pattern |-> <<115, 112, 97, 105, 110>>, lat |-> 404168, lng |-> -37038],  \* spain
    [pattern |-> <<114, 117, 115, 115, 105, 97>>, lat |-> 557558, lng |-> 376173],  \* russia
    [pattern |-> <<112, 111, 108, 97, 110, 100>>, lat |-> 522297, lng |-> 210122],  \* poland
    [pattern |-> <<115, 111, 117, 116, 104, 32, 107, 111, 114, 101, 97>>, lat |-> 375665, lng |-> 1269780],  \* south korea
    [pattern |-> <<107, 111, 114, 101, 97>>, lat |-> 375665, lng |-> 1269780],  \* korea
    [pattern |-> <<105, 115, 114, 97, 101, 108>>, lat |-> 320853, lng |-> 347818],  \* israel
    [pattern |-> <<116, 117, 114, 107, 101, 121>>, lat |-> 410082, lng |-> 289784],  \* turkey
    [pattern |-> <<109, 101, 120, 105, 99, 111>>, lat |-> 194326, lng |-> -991332],  \* mexico
    [pattern |-> <<97, 114, 103, 101, 110, 116, 105, 110, 97>>, lat |-> -346037, lng |-> -583816],  \* argentina
    [pattern |-> <<99, 104, 105, 108, 101>>, lat |-> -334489, lng |-> -706693],  \* chile
    [pattern |-> <<99, 111, 108, 111, 109, 98, 105, 97>>, lat |-> 47110, lng |-> -740721],  \* colombia
    [pattern |-> <<102, 105, 110, 108, 97, 110, 100>>, lat |-> 601699, lng |-> 249384],  \* finland
    [pattern |-> <<100, 101, 110, 109, 97, 114, 107>>, lat |-> 556761, lng |-> 125683],  \* denmark
    [pattern |-> <<97, 117, 115, 116, 114, 105, 97>>, lat |-> 482082, lng |-> 163738],  \* austria
    [pattern |-> <<98, 101, 108, 103, 105, 117, 109>>, lat |-> 508503, lng |-> 43517],  \* belgium
    [pattern |-> <<99, 122, 101, 99, 104, 105, 97>>, lat |-> 500755, lng |-> 144378],  \* czechia
    [pattern |-> <<99, 122, 101, 99, 104, 32, 114, 101, 112, 117, 98, 108, 105, 99>>, lat |-> 500755, lng |-> 144378],  \* czech republic
    [pattern |-> <<104, 117, 110, 103, 97, 114, 121>>, lat |-> 474979, lng |-> 190402],  \* hungary
    [pattern |-> <<117, 107, 114, 97, 105, 110, 101>>, lat |-> 504501, lng |-> 305234],  \* ukraine
    [pattern |-> <<114, 111, 109, 97, 110, 105, 97>>, lat |-> 444268, lng |-> 261025],  \* romania
    [pattern |-> <<98, 117, 108, 103, 97, 114, 105, 97>>, lat |-> 426977, lng |-> 233219],  \* bulgaria
    [pattern |-> <<99, 114, 111, 97, 116, 105, 97>>, lat |-> 458150, lng |-> 159819],  \* croatia
    [pattern |-> <<115, 101, 114, 98, 105, 97>>, lat |-> 447866, lng |-> 204489],  \* serbia
    [pattern |-> <<103, 114, 101, 101, 99, 101>>, lat |-> 379838, lng |-> 237275],  \* greece
    [pattern |-> <<112, 111, 114, 116, 117, 103, 97, 108>>, lat |-> 387223, lng |-> -91393],  \* portugal
    [pattern |-> <<105, 114, 101, 108, 97, 110, 100>>, lat |-> 533498, lng |-> -62603],  \* ireland
    [pattern |-> <<101, 115, 116, 111, 110, 105, 97>>, lat |-> 594370, lng |-> 247536],  \* estonia
    [pattern |-> <<108, 97, 116, 118, 105, 97>>, lat |-> 569496, lng |-> 241052],  \* latvia
    [pattern |-> <<108, 105, 116, 104, 117, 97, 110, 105, 97>>, lat |-> 546872, lng |-> 252797],  \* lithuania
    [pattern |-> <<115, 108, 111, 118, 101, 110, 105, 97>>, lat |-> 460569, lng |-> 145058],  \* slovenia
    [pattern |-> <<115, 108, 111, 118, 97, 107, 105, 97>>, lat |-> 481486, lng |-> 171077],  \* slovakia
    [pattern |-> <<98, 101, 108, 97, 114, 117, 115>>, lat |-> 539006, lng |-> 275590],  \* belarus
    [pattern |-> <<105, 99, 101, 108, 97, 110, 100>>, lat |-> 641466, lng |-> -219426],  \* iceland
    [pattern |-> <<99, 97, 108, 105, 102, 111, 114, 110, 105, 97>>, lat |-> 377749, lng |-> -1224194],  \* california
    [pattern |-> <<99, 97>>, lat |-> 377749, lng |-> -1224194],  \* ca
    [pattern |-> <<116, 101, 120, 97, 115>>, lat |-> 302672, lng |-> -977431],  \* texas
    [pattern |-> <<116, 120>>, lat |-> 302672, lng |-> -977431],  \* tx
    [pattern |-> <<110, 101, 119, 32, 121, 111, 114, 107>>, lat |-> 407128, lng |-> -740060],  \* new york
    [pattern |-> <<110, 121>>, lat |-> 407128, lng |-> -740060],  \* ny
    [pattern |-> <<102, 108, 111, 114, 105, 100, 97>>, lat |-> 257617, lng |-> -801918],  \* florida
    [pattern |-> <<102, 108>>, lat |-> 257617, lng |-> -801918],  \* fl
    [pattern |-> <<119, 97, 115, 104, 105, 110, 103, 116, 111, 110>>, lat |-> 476062, lng |-> -1223321],  \* washington
    [pattern |-> <<119, 97>>, lat |-> 476062, lng |-> -1223321],  \* wa
    [pattern |-> <<109, 97, 115, 115, 97, 99, 104, 117, 115, 101, 116, 116, 115>>, lat |-> 423601, lng |-> -710589],  \* massachusetts
    [pattern |-> <<109, 97>>, lat |-> 423601, lng |-> -710589],  \* ma
    [pattern |-> <<105, 108, 108, 105, 110, 111, 105, 115>>, lat |-> 418781, lng |-> -876298],  \* illinois
    [pattern |-> <<105, 108>>, lat |-> 418781, lng |-> -876298],  \* il
    [pattern |-> <<111, 104, 105, 111>>, lat |-> 399612, lng |-> -829988],  \* ohio
    [pattern |-> <<111, 104>>, lat |-> 399612, lng |-> -829988],  \* oh
    [pattern |-> <<103, 101, 111, 114, 103, 105, 97>>, lat |-> 337490, lng |-> -843880],  \* georgia
    [pattern |-> <<103, 97>>, lat |-> 337490, lng |-> -843880],  \* ga
    [pattern |-> <<118, 105, 114, 103, 105, 110, 105, 97>>, lat |-> 389072, lng |-> -770369],  \* virginia
    [pattern |-> <<118, 97>>, lat |-> 389072, lng |-> -770369],  \* va
    [pattern |-> <<110, 111, 114, 116, 104, 32, 99, 97, 114, 111, 108, 105, 110, 97>>, lat |-> 357796, lng |-> -786382],  \* north carolina
    [pattern |-> <<110, 99>>, lat |-> 357796, lng |-> -786382],  \* nc
    [pattern |-> <<99, 111, 108, 111, 114, 97, 100, 111>>, lat |-> 397392, lng |-> -1049903],  \* colorado
    [pattern |-> <<99, 111>>, lat |-> 397392, lng |-> -1049903],  \* co
    [pattern |-> <<111, 114, 101, 103, 111, 110>>, lat |-> 455152, lng |-> -1226784],  \* oregon
    [pattern |-> <<111, 114>>, lat |-> 455152, lng |-> -1226784],  \* or
    [pattern |-> <<117, 116, 97, 104>>, lat |-> 407608, lng |-> -1118910],  \* utah
    [pattern |-> <<117, 116>>, lat |-> 407608, lng |-> -1118910],  \* ut
    [pattern |-> <<97, 114, 105, 122, 111, 110, 97>>, lat |-> 334484, lng |-> -1120740],  \* arizona
    [pattern |-> <<97, 122>>, lat |-> 334484, lng |-> -1120740],  \* az
    [pattern |-> <<112, 101, 110, 110, 115, 121, 108, 118, 97, 110, 105, 97>>, lat |-> 399526, lng |-> -751652],  \* pennsylvania
    [pattern |-> <<112, 97>>, lat |-> 399526, lng |-> -751652],  \* pa
    [pattern |-> <<109, 105, 99, 104, 105, 103, 97, 110>>, lat |-> 423314, lng |-> -830458],  \* michigan
    [pattern |-> <<109, 105>>, lat |-> 423314, lng |-> -830458],  \* mi
    [pattern |-> <<109, 105, 110, 110, 101, 115, 111, 116, 97>>, lat |-> 449778, lng |-> -932650],  \* minnesota
    [pattern |-> <<109, 110>>, lat |-> 449778, lng |-> -932650],  \* mn
    [pattern |-> <<119, 105, 115, 99, 111, 110, 115, 105, 110>>, lat |-> 430389, lng |-> -879065],  \* wisconsin
    [pattern |-> <<119, 105>>, lat |-> 430389, lng |-> -879065],  \* wi
    [pattern |-> <<116, 101, 110, 110, 101, 115, 115, 101, 101>>, lat |-> 361627, lng |-> -867816],  \* tennessee
    [pattern |-> <<116, 110>>, lat |-> 361627, lng |-> -867816],  \* tn
    [pattern |-> <<109, 105, 115, 115, 111, 117, 114, 105>>, lat |-> 390458, lng |-> -766413],  \* missouri
    [pattern |-> <<109, 111>>, lat |-> 390458, lng |-> -766413],  \* mo
    [pattern |-> <<109, 97, 114, 121, 108, 97, 110, 100>>, lat |-> 390458, lng |-> -766413],  \* maryland
    [pattern |-> <<109, 100>>, lat |-> 390458, lng |-> -766413],  \* md
    [pattern |-> <<99, 111, 110, 110, 101, 99, 116, 105, 99, 117, 116>>, lat |-> 417658, lng |-> -726734],  \* connecticut
    [pattern |-> <<99, 116>>, lat |-> 417658, lng |-> -726734],  \* ct
    [pattern |-> <<110, 101, 119, 32, 106, 101, 114, 115, 101, 121>>, lat |-> 400583, lng |-> -744057],  \* new jersey
    [pattern |-> <<110, 106>>, lat |-> 400583, lng |-> -744057],  \* nj
    [pattern |-> <<105, 110, 100, 105, 97, 110, 97>>, lat |-> 397684, lng |-> -861581],  \* indiana
    [pattern |-> <<105, 110>>, lat |-> 397684, lng |-> -861581],  \* in
    [pattern |-> <<111, 110, 116, 97, 114, 105, 111>>, lat |-> 436532, lng |-> -793832],  \* ontario
    [pattern |-> <<111, 110>>, lat |-> 436532, lng |-> -793832],  \* on
    [pattern |-> <<113, 117, 101, 98, 101, 99>>, lat |-> 455017, lng |-> -735673],  \* quebec
    [pattern |-> <<113, 99>>, lat |-> 455017, lng |-> -735673],  \* qc
    [pattern |-> <<98, 114, 105, 116, 105, 115, 104, 32, 99, 111, 108, 117, 109, 98, 105, 97>>, lat |-> 492827, lng |-> -1231207],  \* british columbia
    [pattern |-> <<98, 99>>, lat |-> 492827, lng |-> -1231207],  \* bc
    [pattern |-> <<97, 108, 98, 101, 114, 116, 97>>, lat |-> 510447, lng |-> -1140719],  \* alberta
    [pattern |-> <<97, 98>>, lat |-> 510447, lng |-> -1140719],  \* ab
    [pattern |-> <<114, 101, 109, 111, 116, 101>>, lat |-> 377749, lng |-> -1224194],  \* remote
    [pattern |-> <<119, 111, 114, 108, 100, 119, 105, 100, 101>>, lat |-> 377749, lng |-> -1224194],  \* worldwide
    [pattern |-> <<101, 118, 101, 114, 121, 119, 104, 101, 114, 101>>, lat |-> 377749, lng |-> -1224194],  \* everywhere
    [pattern |-> <<118, 105, 114, 116, 117, 97, 108>>, lat |-> 377749, lng |-> -1224194],  \* virtual
    [pattern |-> <<111, 110, 108, 105, 110, 101>>, lat |-> 377749, lng |-> -1224194],  \* online
    [pattern |-> <<105, 110, 116, 101, 114, 110, 101, 116>>, lat |-> 377749, lng |-> -1224194],  \* internet
    [pattern |-> <<101, 97, 114, 116, 104>>, lat |-> 377749, lng |-> -1224194],  \* earth
    [pattern |-> <<103, 108, 111, 98, 97, 108>>, lat |-> 377749, lng |-> -1224194],  \* global
    [pattern |-> <<49, 50, 55, 46, 48, 46, 48, 46, 49>>, lat |-> 377749, lng |-> -1224194],  \* 127.0.0.1
    [pattern |-> <<108, 111, 99, 97, 108, 104, 111, 115, 116>>, lat |-> 377749, lng |-> -1224194],  \* localhost
    [pattern |-> <<117, 110, 100, 101, 102, 105, 110, 101, 100>>, lat |-> 377749, lng |-> -1224194],  \* undefined
    [pattern |-> <<110, 117, 108, 108>>, lat |-> 377749, lng |-> -1224194],  \* null
    [pattern |-> <<126>>, lat |-> 377749, lng |-> -1224194],  \* ~
    [pattern |-> <<121, 111, 117, 114, 32, 104, 101, 97, 114, 116>>, lat |-> 377749, lng |-> -1224194],  \* your heart
    [pattern |-> <<103, 104, 101, 110, 116>>, lat |-> 510543, lng |-> 37174],  \* ghent
    [pattern |-> <<115, 227, 111, 32, 112, 97, 117, 108, 111>>, lat |-> -235505, lng |-> -466333],  \* s?o paulo
    [pattern |-> <<115, 97, 111, 32, 112, 97, 117, 108, 111>>, lat |-> -235505, lng |-> -466333]  \* sao paulo
  >>

(***************************************************************************)
(* geocodeLocation (app.js 285-565): the resolution procedure              *)
(***************************************************************************)
Coords(la, ln) == [lat |-> la, lng |-> ln]

DefaultCoords == Coords(377749, -1224194)   \* "Default to SF"

Europe == <<101, 117, 114, 111, 112, 101>>
Eu == <<101, 117>>
Asia == <<97, 115, 105, 97>>
Asian == <<97, 115, 105, 97, 110>>
Africa == <<97, 102, 114, 105, 99, 97>>
African == <<97, 102, 114, 105, 99, 97, 110>>
SouthAmerica == <<115, 111, 117, 116, 104, 32, 97, 109, 101, 114, 105, 99, 97>>
Latin == <<108, 97, 116, 105, 110>>
Oceania == <<111, 99, 101, 97, 110, 105, 97>>
Pacific == <<112, 97, 99, 105, 102, 105, 99>>

\* Variants of the fallback: one that gives up (null) where no continent is
\* named, one that looks for Asia before Europe
RegionalDefaultOrNull(n) ==
    IF includes(n, Europe) \/ includes(n, Eu) THEN Coords(515074, -1278)
    ELSE IF includes(n, Asia) \/ includes(n, Asian) THEN Coords(356762, 1396503)
    ELSE IF includes(n, Africa) \/ includes(n, African) THEN Coords(-262041, 280473)
    ELSE IF includes(n, SouthAmerica) \/ includes(n, Latin) THEN Coords(-235505, -466333)
    ELSE IF includes(n, Oceania) \/ includes(n, Pacific) THEN Coords(-338688, 1512093)
    ELSE Null

RegionalDefaultAsiaFirst(n) ==
    IF includes(n, Asia) \/ includes(n, Asian) THEN Coords(356762, 1396503)
    ELSE IF includes(n, Europe) \/ includes(n, Eu) THEN Coords(515074, -1278)
    ELSE IF includes(n, Africa) \/ includes(n, African) THEN Coords(-262041, 280473)
    ELSE IF includes(n, SouthAmerica) \/ includes(n, Latin) THEN Coords(-235505, -466333)
    ELSE IF includes(n, Oceania) \/ includes(n, Pacific) THEN Coords(-338688, 1512093)
    ELSE Coords(377749, -1224194)

\* lines 538-552: the continent guess, else the fixed default
RegionalDefault(n) ==
    IF includes(n, Europe) \/ includes(n, Eu) THEN Coords(515074, -1278)
    ELSE IF includes(n, Asia) \/ includes(n, Asian) THEN Coords(356762, 1396503)
    ELSE IF includes(n, Africa) \/ includes(n, African) THEN Coords(-262041, 280473)
    ELSE IF includes(n, SouthAmerica) \/ includes(n, Latin) THEN Coords(-235505, -466333)
    ELSE IF includes(n, Oceania) \/ includes(n, Pacific) THEN Coords(-338688, 1512093)
    ELSE DefaultCoords

\* lines 295-305: a city matches when the text contains one of its aliases or
\* one of its aliases contains the text
AliasMatches(city, n) ==
    \E a \in 1..Len(city.aliases) :
        includes(n, toLowerCase(city.aliases[a])) \/ includes(toLowerCase(city.aliases[a]), n)

\* the least element of a set of table positions, 0 when there is none
First(hits) == IF hits = {} THEN 0 ELSE CHOOSE i \in hits : \A j \in hits : i <= j

\* lines 290-556: the scan of the three tables in order, then the fallback.
\* A location that is not a string makes location.toLowerCase() throw; the
\* catch (558-564) turns that into null.
IsString(location) == location # Null

ScanTables(location) ==
    IF ~IsString(location) THEN Null
    ELSE
    LET n == trim(toLowerCase(location.chars))
        m == First({i \in 1..Len(MAJOR_LOCATIONS) : AliasMatches(MAJOR_LOCATIONS[i], n)})
        c == First({i \in 1..Len(cityPatterns) : includes(n, cityPatterns[i].pattern)})
        r == First({i \in 1..Len(locationMappings) : includes(n, locationMappings[i].pattern)})
    IN  IF m # 0 THEN Coords(MAJOR_LOCATIONS[m].lat, MAJOR_LOCATIONS[m].lng)
        ELSE IF c # 0 THEN Coords(cityPatterns[c].lat, cityPatterns[c].lng)
        ELSE IF r # 0 THEN Coords(locationMappings[r].lat, locationMappings[r].lng)
        ELSE RegionalDefault(n)

(***************************************************************************)
(* The static data source: batch files, the consolidated file              *)
(***************************************************************************)
Some(x) == [v |-> x]     \* a present JSON number
Str(chars) == [chars |-> chars]   \* a JSON string

Developer(login, location, coordinates, followers) ==
    [login |-> login, location |-> location, coordinates |-> coordinates,
     followers |-> followers]

LocSanFranciscoCA == Str(<<83, 97, 110, 32, 70, 114, 97, 110, 99, 105, 115, 99, 111, 44, 32, 67, 65>>)   \* "San Francisco, CA"
LocSF == Str(<<83, 70>>)   \* "SF"
LocLondonUK == Str(<<76, 111, 110, 100, 111, 110, 44, 32, 85, 75>>)   \* "London, UK"
LocBerlin == Str(<<66, 101, 114, 108, 105, 110>>)   \* "Berlin"
LocTokyo == Str(<<84, 111, 107, 121, 111>>)   \* "Tokyo"
LocParis == Str(<<80, 97, 114, 105, 115>>)   \* "Paris"
LocLagos == Str(<<76, 97, 103, 111, 115>>)   \* "Lagos"
LocAmsterdam == Str(<<65, 109, 115, 116, 101, 114, 100, 97, 109>>)   \* "Amsterdam"
LocRemote == Str(<<82, 101, 109, 111, 116, 101>>)   \* "Remote"
LocSydney == Str(<<83, 121, 100, 110, 101, 121>>)   \* "Sydney"
LocOslo == Str(<<79, 115, 108, 111>>)   \* "Oslo"

\* data/developers-batch-<n>.json: "octocat" is in batches 0 and 1; "grace"
\* comes with the coordinates the download script's geocoder gave for Berlin,
\* which are not those of the tables; "mallory" has followers: null and
\* "nina", after her, has none
BatchFile(n) ==
    IF n = 0 THEN
      << Developer("octocat", LocSanFranciscoCA, Null, Some(900)),
         Developer("alice", LocSF, Null, Some(800)),
         Developer("bob", LocLondonUK, Null, Some(700)),
         Developer("carol", LocBerlin, Null, Some(600)) >>
    ELSE IF n = 1 THEN
      << Developer("octocat", LocParis, Null, Some(950)),
         Developer("dave", LocTokyo, Null, Some(500)),
         Developer("erin", LocTokyo, Null, Some(500)),
         Developer("frank", LocLagos, Null, Some(400)) >>
    ELSE IF n = 2 THEN
      << Developer("grace", LocBerlin, Coords(525170, 133889), Some(300)),
         Developer("heidi", LocAmsterdam, Null, Some(200)),
         Developer("ivan", LocRemote, Null, Some(100)),
         Developer("mallory", LocSydney, Null, Null),
         Developer("nina", LocOslo, Null, Some(0)) >>
    ELSE << >>

\* developers-data.json: the file the batches were split from (convert script)
ConsolidatedFile == BatchFile(0) \o BatchFile(1) \o BatchFile(2)

\* the object a callback gets for entry pos of a file it fetched: every
\* response.json() builds fresh objects
BatchObject(t, n, pos) == [by |-> t, file |-> FALSE, batch |-> n, pos |-> pos]
FileObject(t, pos) == [by |-> t, file |-> TRUE, batch |-> 0, pos |-> pos]

\* a data source with many developers, entry pos of it: followers fall with
\* pos in groups of three equal counts, every 7th entry has more followers
\* than the entries before it, every 50th has followers: null; every 11th
\* has no location and every 13th an empty one
LargeFollowers(pos) ==
    IF pos % 50 = 0 THEN Null
    ELSE Some(2000 - 3 * (pos \div 3) + (IF pos % 7 = 0 THEN 10 ELSE 0))

LargeLocation(pos) ==
    IF pos % 11 = 0 THEN Null
    ELSE IF pos % 13 = 0 THEN Str(<< >>)
    ELSE LocBerlin

LargeEntry(pos) ==
    Developer(ToString(pos), LargeLocation(pos), Null, LargeFollowers(pos))

\* the object parsed from entry pos of that source
LargeObject(pos) == [by |-> 0, file |-> TRUE, batch |-> 0, pos |-> pos]

\* the fields of an object that never change after parsing
Fields(o) ==
    IF o.by = 0 THEN LargeEntry(o.pos)
    ELSE IF o.file THEN ConsolidatedFile[o.pos] ELSE BatchFile(o.batch)[o.pos]

KnownLocations ==
    {LocSanFranciscoCA, LocSF, LocLondonUK, LocBerlin, LocTokyo, LocParis,
     LocLagos, LocAmsterdam, LocRemote, LocSydney, LocOslo}

ScanOfKnown ==
    {[location |-> l, coords |-> ScanTables(l)] : l \in KnownLocations}

Resolve(location) ==
    IF location \in KnownLocations
    THEN (CHOOSE e \in ScanOfKnown : e.location = location).coords
    ELSE ScanTables(location)

(***************************************************************************)
(* Module state (app.js 2-8), the callbacks in flight, and what the page   *)
(* has shown                                                               *)
(***************************************************************************)
VARIABLES
    markers,         \* let markers = []: sequence of markers
    layer,           \* markerLayers.all: the markers on the map
    loadedBatches,   \* let loadedBatches = new Set()
    allDevelopers,   \* let allDevelopers = new Map(): entries in insertion order
    locationCache,   \* let locationCache = new Map()
    index,           \* let index = null
    coordinates,     \* the coordinates field of every developer object parsed so far
    tasks,           \* the callbacks: where each is suspended, and its locals
    refreshBtn,      \* the click handler of the refresh button is registered
    errors,          \* the notices put up by showError
    faults,          \* loads of a data file that failed so far
    scans,           \* how often the tables were scanned, per location string
    lastDone,        \* the callback whose updateMapMarkers returned last (0: none)
    call             \* a function called on its own: its arguments and its result

vars == <<markers, layer, loadedBatches, allDevelopers, locationCache, index,
          coordinates, tasks, refreshBtn, errors, faults, scans, lastDone, call>>

Tasks == 1..MaxTasks
Zooms == {minZoomForMore - 1, minZoomForMore, minZoomForMore + 1}

\* map.getBounds(): the views the user can be looking at
World == [south |-> -850000, west |-> -1800000, north |-> 850000, east |-> 1800000]
EuropeView == [south |-> 400000, west |-> -100000, north |-> 600000, east |-> 300000]
Views == {World, EuropeView}

NoFunction == << >>       \* the function with the empty domain

IdleTask ==
    [kind |-> "none",      \* "load" (page load), "refresh", "mapchange"
     pc |-> "idle",        \* the await the callback is suspended at
     zoom |-> 0,           \* onMapChange: map.getZoom()
     noIndex |-> FALSE,    \* loadIndex returned null (line 94)
     atOnce |-> FALSE,     \* the last loadBatch returned at line 102
     cleared |-> FALSE,    \* clearAll ran while the last loadBatch was fetching
     i |-> 0,              \* loop variable of the batch loop
     target |-> 0,         \* batchesToLoad / targetBatches
     k |-> 0,              \* position of the fallback geocoding loop
     geocoded |-> 0,       \* its counter
     file |-> "none",      \* how the fetch of developers-data.json ended
     fileLen |-> 0,        \* developers.length of the parsed file
     shown |-> << >>,      \* updateMapMarkers: developersToShow
     promises |-> 0,       \* geocodingPromises.length
     gi |-> 0,             \* loop variable of the geocoding batches
     groups |-> << >>,     \* locationGroups, in key insertion order
     g |-> 0,              \* position in Object.entries(locationGroups)
     markerCount |-> 0,
     before |-> << >>,     \* the markers when updateMapMarkers was entered
     after |-> << >>,      \* the markers when it returned
     caught |-> FALSE]     \* its catch block ran

Init ==
    /\ markers = << >>
    /\ layer = << >>
    /\ loadedBatches = {}
    /\ allDevelopers = << >>
    /\ locationCache = NoFunction
    /\ index = Null
    /\ coordinates = NoFunction
    /\ tasks = [t \in Tasks |-> IdleTask]
    /\ refreshBtn = FALSE
    /\ errors = {}
    /\ faults = 0
    /\ scans = NoFunction
    /\ lastDone = 0
    /\ call = Null

\* the state as one value, so that the statements of a callback compose
State ==
    [markers |-> markers, layer |-> layer, loadedBatches |-> loadedBatches,
     allDevelopers |-> allDevelopers, locationCache |-> locationCache,
     index |-> index, coordinates |-> coordinates, tasks |-> tasks,
     refreshBtn |-> refreshBtn, errors |-> errors, faults |-> faults, scans |-> scans,
     lastDone |-> lastDone]

CommitWith(S, c) ==
    /\ call' = c
    /\ markers' = S.markers
    /\ layer' = S.layer
    /\ loadedBatches' = S.loadedBatches
    /\ allDevelopers' = S.allDevelopers
    /\ locationCache' = S.locationCache
    /\ index' = S.index
    /\ coordinates' = S.coordinates
    /\ tasks' = S.tasks
    /\ refreshBtn' = S.refreshBtn
    /\ errors' = S.errors
    /\ faults' = S.faults
    /\ scans' = S.scans
    /\ lastDone' = S.lastDone

\* a step of the page's callbacks
Commit(S) == CommitWith(S, call)

\* the fetch of a batch or of the single file ends; anything but the file it
\* asked for uses up the fault budget
Fetched(S, good) == IF good THEN S ELSE [S EXCEPT !.faults = @ + 1]

CanEnd(good) == good \/ faults < MaxFaults

\* showError(message) called by callback t
showError(S, t, msg) == [S EXCEPT !.errors = @ \cup {[by |-> t, msg |-> msg]}]

Message(text) == [text |-> text, n |-> 0]

(***************************************************************************)
(* allDevelopers: Map operations                                           *)
(***************************************************************************)
MapHas(m, login) == \E p \in 1..Len(m) : m[p].login = login

\* Map.prototype.set: a new key goes last, a present key keeps its place
MapSet(m, login, o) ==
    IF MapHas(m, login)
    THEN [m EXCEPT ![CHOOSE p \in 1..Len(m) : m[p].login = login].dev = o]
    ELSE Append(m, [login |-> login, dev |-> o])

MapGet(m, login) == m[CHOOSE p \in 1..Len(m) : m[p].login = login].dev

\* a freshly parsed object enters the heap with the coordinates of its file
Parsed(S, o) == [S EXCEPT !.coordinates = (o :> Fields(o).coordinates) @@ @]

SetCoordinates(S, o, c) == [S EXCEPT !.coordinates[o] = c]

Truthy(location) == location # Null /\ Len(location.chars) > 0

\* a variant that resolves the location of every developer that has one
HasLocation(S, o) == Truthy(Fields(o).location)

\* lines 176 and 586: the developer has a location and no coordinates
NeedsCoordinates(S, o) == S.coordinates[o] = Null /\ Truthy(Fields(o).location)

(***************************************************************************)
(* geocodeLocation (app.js 285-565) with its cache                         *)
(***************************************************************************)
\* Variants of the two cache operations, for showing that the cache
\* properties below depend on them: a check that never finds an entry, and a
\* write that drops the other entries
CacheNeverHas(cache, location) == FALSE

CacheSetAlone(cache, location, coords) == (location :> coords)

CacheHas(cache, location) == location \in DOMAIN cache

CacheSet(cache, location, coords) == (location :> coords) @@ cache

CountScan(sc, location) ==
    (location :> (IF location \in DOMAIN sc THEN sc[location] + 1 ELSE 1)) @@ sc

\* the state after geocodeLocation(location); its result is GeocodeResult.
\* The function has no await inside: it runs to its return when called.
geocodeLocation(S, location) ==
    IF CacheHas(S.locationCache, location) THEN S
    ELSE [S EXCEPT !.locationCache = CacheSet(@, location, Resolve(location)),
                   !.scans = CountScan(@, location)]

GeocodeResult(S, location) ==
    IF CacheHas(S.locationCache, location) THEN S.locationCache[location]
    ELSE Resolve(location)

(***************************************************************************)
(* getDevelopersInBounds (app.js 257-282)                                  *)
(***************************************************************************)
Num(followers) == IF followers = Null THEN 0 ELSE followers.v

padNothing(b) == b

\* bounds.pad(0.2)
pad(b) ==
    LET h == ((b.north - b.south) * boundsPadPercent) \div 100
        w == ((b.east - b.west) * boundsPadPercent) \div 100
    IN  [south |-> b.south - h, west |-> b.west - w, north |-> b.north + h, east |-> b.east + w]

contains(b, c) ==
    c.lat >= b.south /\ c.lat <= b.north /\ c.lng >= b.west /\ c.lng <= b.east

\* (a, b) => b.followers - a.followers is negative: a is put before b
ByFollowersOrEqual(a, b) == Num(Fields(a).followers) >= Num(Fields(b).followers)

ByFollowers(a, b) == Num(Fields(a).followers) > Num(Fields(b).followers)

\* Array.prototype.sort(compare): a stable sort, elements that compare equal
\* keep their order (SortSeq inserts s[1], s[2], ... one after the other, each
\* one before the elements it is to be put before)
SortByFollowers(s) == SortSeq(s, ByFollowers)

Min(a, b) == IF a <= b THEN a ELSE b

slice(s, n) == SubSeq(s, 1, Min(n, Len(s)))

InBoundsCandidateNoBypass(S, o, showAll, expandedBounds) ==
    IF S.coordinates[o] # Null
    THEN contains(expandedBounds, S.coordinates[o])
    ELSE Truthy(Fields(o).location)

InBoundsCandidate(S, o, showAll, expandedBounds) ==
    IF S.coordinates[o] # Null
    THEN showAll \/ contains(expandedBounds, S.coordinates[o])
    ELSE Truthy(Fields(o).location)

getDevelopersInBounds(S, bounds) ==
    LET expandedBounds == pad(bounds)
        totalDevelopers == Len(S.allDevelopers)
        showAll == totalDevelopers < showAllBelow
        values == [p \in 1..totalDevelopers |-> S.allDevelopers[p].dev]
        Keep(o) == InBoundsCandidate(S, o, showAll, expandedBounds)
        developersInBounds == SelectSeq(values, Keep)
    IN  slice(SortByFollowers(developersInBounds),
              IF showAll THEN Min(totalDevelopers, showAllCap) ELSE developersPerView)

(***************************************************************************)
(* updateMapMarkers (app.js 568-661)                                       *)
(***************************************************************************)
\* the callback returns: loadInitialData and onMapChange end after their
\* updateMapMarkers; the page-load handler then registers the refresh button
\* (app.js 943-949)
Finish(S, t) ==
    [S EXCEPT !.tasks[t].pc = "done",
              !.refreshBtn = @ \/ S.tasks[t].kind = "load"]

\* updateMapMarkers returns (finally, 658-660)
UmmReturn(S, t) ==
    Finish([S EXCEPT !.tasks[t].after = S.markers, !.lastDone = t], t)

\* createPopupContent (664-691) throws on developer.followers.toLocaleString()
\* when followers is null
PopupThrows(o) == Fields(o).followers = Null

\* toFixed(3) of a coordinate, in units of 1e-3 degree
toFixed3(x) == (x + 5) \div 10

locationKey(c) == [lat |-> toFixed3(c.lat), lng |-> toFixed3(c.lng)]

\* lines 620-629: locationGroups, keys in insertion order
RECURSIVE GroupByLocation(_, _, _, _)
GroupByLocation(S, shown, p, groups) ==
    IF p > Len(shown) THEN groups
    ELSE LET o == shown[p]
             c == S.coordinates[o]
         IN  IF c = Null THEN GroupByLocation(S, shown, p + 1, groups)
             ELSE LET key == locationKey(c)
                      at == {q \in 1..Len(groups) : groups[q].key = key}
                  IN  IF at = {}
                      THEN GroupByLocation(S, shown, p + 1,
                               Append(groups, [key |-> key, devs |-> <<o>>]))
                      ELSE GroupByLocation(S, shown, p + 1,
                               [groups EXCEPT ![CHOOSE q \in at : TRUE].devs = Append(@, o)])

\* a variant that puts every member of a group at the group's coordinate
MarkerAtKey(key, o, idx, t) ==
    [dev |-> o, lat |-> key.lat * 10, lng |-> key.lng * 10, by |-> t]

\* lines 636-644: the marker of member idx (0-based) of a group
Marker(key, o, idx, t) ==
    [dev |-> o, lat |-> key.lat * 10 + idx * 10, lng |-> key.lng * 10 + idx * 10, by |-> t]

\* a variant that pushes the marker without adding it to the layer group
PushMarkerOnly(S, m) == [S EXCEPT !.markers = Append(@, m)]

\* lines 641-642: addLayer and push
AddMarker(S, m) == [S EXCEPT !.layer = Append(@, m), !.markers = Append(@, m)]

RECURSIVE AddGroupMarkers(_, _, _, _)
AddGroupMarkers(S, t, grp, n) ==
    IF n = 0 THEN S
    ELSE AddMarker(AddGroupMarkers(S, t, grp, n - 1), Marker(grp.key, grp.devs[n], n - 1, t))

\* lines 631-661: the marker loop from group tasks[t].g on
RECURSIVE CreateMarkers(_, _)
CreateMarkers(S, t) ==
    LET T == S.tasks[t]
    IN  IF T.g > Len(T.groups) THEN UmmReturn(S, t)
        ELSE LET grp == T.groups[T.g]
                 bad == {n \in 1..Len(grp.devs) : PopupThrows(grp.devs[n])}
             IN  IF bad # {}
                 THEN \* the throw leaves forEach; catch (655-657)
                      LET first == CHOOSE n \in bad : \A m \in bad : n <= m
                          S1 == AddGroupMarkers(S, t, grp, first - 1)
                      IN  UmmReturn(showError([S1 EXCEPT !.tasks[t].caught = TRUE],
                                              t, Message("Failed to update map markers")), t)
                 ELSE LET S1 == AddGroupMarkers(S, t, grp, Len(grp.devs))
                          count == T.markerCount + Len(grp.devs)
                          S2 == [S1 EXCEPT !.tasks[t].markerCount = count]
                      IN  IF count % markerPauseEvery = 0
                          THEN [S2 EXCEPT !.tasks[t].pc = "markdelay"]
                          ELSE CreateMarkers([S2 EXCEPT !.tasks[t].g = @ + 1], t)

GroupAndMark(S, t) ==
    CreateMarkers([S EXCEPT !.tasks[t].groups = GroupByLocation(S, S.tasks[t].shown, 1, << >>),
                            !.tasks[t].g = 1,
                            !.tasks[t].markerCount = 0], t)

\* lines 605-618: the geocoding batches, from batch start tasks[t].gi on.
\* Promise.all over the settled promises resumes in the same microtask
\* checkpoint; only delay(geocodingDelay) suspends.
RECURSIVE GeocodingBatches(_, _)
GeocodingBatches(S, t) ==
    LET T == S.tasks[t]
    IN  IF T.gi >= T.promises THEN GroupAndMark(S, t)
        ELSE IF T.gi + geocodeBatchSize < T.promises
             THEN [S EXCEPT !.tasks[t].pc = "geodelay"]
             ELSE GeocodingBatches([S EXCEPT !.tasks[t].gi = @ + geocodeBatchSize], t)

\* lines 585-603.  geocodeLocation runs when it is called, so the cache is
\* written inside the loop; the then-callbacks that set dev.coordinates run at
\* the first await after the loop, before anything reads the field.
RECURSIVE QueueGeocoding(_, _, _)
QueueGeocoding(S, t, p) ==
    LET shown == S.tasks[t].shown
    IN  IF p > Len(shown) THEN S
        ELSE LET o == shown[p]
                 loc == Fields(o).location
             IN  IF NeedsCoordinates(S, o)
                 THEN IF ~CacheHas(S.locationCache, loc)
                      THEN LET coords == GeocodeResult(S, loc)
                               S1 == [geocodeLocation(S, loc) EXCEPT !.tasks[t].promises = @ + 1]
                           IN  QueueGeocoding(IF coords # Null THEN SetCoordinates(S1, o, coords)
                                              ELSE S1, t, p + 1)
                      ELSE LET cached == S.locationCache[loc]
                           IN  QueueGeocoding(IF cached # Null THEN SetCoordinates(S, o, cached)
                                              ELSE S, t, p + 1)
                 ELSE QueueGeocoding(S, t, p + 1)

\* the clear at the head of the try block (576-579)
ClearMarkers(S) == [S EXCEPT !.layer = << >>, !.markers = << >>]

\* updateMapMarkers from its first line to its first suspension or its return
updateMapMarkers(S, t, bounds) ==
    LET developersToShow == getDevelopersInBounds(S, bounds)
        S1 == [S EXCEPT !.tasks[t].shown = developersToShow,
                        !.tasks[t].before = S.markers,
                        !.tasks[t].promises = 0,
                        !.tasks[t].gi = 0]
    IN  GeocodingBatches(QueueGeocoding(ClearMarkers(S1), t, 1), t)

(***************************************************************************)
(* loadBatch (app.js 99-146)                                               *)
(***************************************************************************)
BatchError(n) == [text |-> "Failed to load developer data batch", n |-> n]

\* a variant in which the failure of a batch ends the callback
BatchFailedAbandons(S, t, n) ==
    [showError(S, t, BatchError(n)) EXCEPT !.tasks[t].pc = "done"]

\* lines 139-142: the catch block of loadBatch; the caller goes on to its delay
BatchFailed(S, t, n) ==
    [showError(S, t, BatchError(n)) EXCEPT !.tasks[t].pc = "pace"]

\* lines 127-131: first write wins
RECURSIVE MergeBatch(_, _, _, _)
MergeBatch(S, t, n, pos) ==
    IF pos > Len(BatchFile(n)) THEN S
    ELSE LET o == BatchObject(t, n, pos)
             login == Fields(o).login
         IN  IF MapHas(S.allDevelopers, login) THEN MergeBatch(S, t, n, pos + 1)
             ELSE MergeBatch([Parsed(S, o) EXCEPT !.allDevelopers = MapSet(@, login, o)],
                             t, n, pos + 1)

\* lines 123-137: the batch arrived
BatchLoaded(S, t, n) ==
    [MergeBatch(S, t, n, 1) EXCEPT !.loadedBatches = @ \cup {n}]

(***************************************************************************)
(* The batch loops of loadInitialData (199-206) and onMapChange (242-249), *)
(* from the loop head with loop variable tasks[t].i                        *)
(***************************************************************************)
\* a variant of the test of line 100 that never finds the batch loaded
BatchIsNeverLoaded(S, n) == FALSE

\* line 100: loadedBatches.has(batchNumber)
BatchIsLoaded(S, n) == n \in S.loadedBatches

\* loadBatch(tasks[t].i), from its call to its first await or its return
loadBatch(S, t) ==
    IF BatchIsLoaded(S, S.tasks[t].i)
    THEN \* return [] at once; the caller goes to its delay
         [S EXCEPT !.tasks[t].pc = "pace", !.tasks[t].atOnce = TRUE,
                   !.tasks[t].cleared = FALSE]
    ELSE \* line 109: the fetch is issued
         [S EXCEPT !.tasks[t].pc = "batch", !.tasks[t].atOnce = FALSE,
                   !.tasks[t].cleared = FALSE]

RECURSIVE LoadLoop(_, _, _)
LoadLoop(S, t, bounds) ==
    LET T == S.tasks[t]
    IN  IF T.i >= T.target
        THEN updateMapMarkers([S EXCEPT !.tasks[t].atOnce = FALSE,
                                        !.tasks[t].cleared = FALSE], t, bounds)
        ELSE IF T.kind = "mapchange" /\ T.i \in S.loadedBatches
             THEN \* if (!loadedBatches.has(i)) fails: next i, no delay
                  LoadLoop([S EXCEPT !.tasks[t].i = @ + 1], t, bounds)
             ELSE loadBatch(S, t)

(***************************************************************************)
(* loadInitialData (app.js 149-220)                                        *)
(***************************************************************************)
\* lines 165-167: allDevelopers.set for every entry of the file
RECURSIVE StoreFile(_, _, _, _)
StoreFile(S, t, pos, len) ==
    IF pos > len THEN S
    ELSE LET o == FileObject(t, pos)
         IN  StoreFile([Parsed(S, o) EXCEPT !.allDevelopers = MapSet(@, Fields(o).login, o)],
                       t, pos + 1, len)

\* lines 175-190: geocode the first 20 entries of the file, from entry
\* tasks[t].k on; then updateMapMarkers (210)
RECURSIVE FallbackGeocoding(_, _, _)
FallbackGeocoding(S, t, bounds) ==
    LET T == S.tasks[t]
    IN  IF T.k > Min(fallbackGeocodeLimit, T.fileLen) THEN updateMapMarkers(S, t, bounds)
        ELSE LET o == FileObject(t, T.k)
                 loc == Fields(o).location
                 next == [S EXCEPT !.tasks[t].k = @ + 1]
             IN  IF NeedsCoordinates(S, o)
                 THEN LET coords == GeocodeResult(S, loc)
                          S1 == geocodeLocation(next, loc)
                          S2 == IF coords # Null
                                THEN [SetCoordinates(S1, o, coords)
                                         EXCEPT !.tasks[t].geocoded = @ + 1]
                                ELSE S1
                      IN  IF S2.tasks[t].geocoded % fallbackPauseEvery = 0
                          THEN [S2 EXCEPT !.tasks[t].pc = "filegeo"]
                          ELSE FallbackGeocoding(S2, t, bounds)
                 ELSE FallbackGeocoding(next, t, bounds)

\* lines 149-155: loadInitialData starts and loadIndex issues its fetch
loadInitialData(S, t) == [S EXCEPT !.tasks[t].pc = "index"]

\* clearAll (743-753)
clearAll(S) ==
    [S EXCEPT !.layer = << >>, !.markers = << >>, !.allDevelopers = << >>,
              !.loadedBatches = {},
              !.tasks = [u \in Tasks |->
                            IF S.tasks[u].pc \in {"batch", "fallback"}
                            THEN [S.tasks[u] EXCEPT !.cleared = TRUE]
                            ELSE S.tasks[u]]]

(***************************************************************************)
(* The callbacks                                                           *)
(***************************************************************************)
\* callbacks take the task slots in order
Running == {u \in Tasks : tasks[u].pc \notin {"idle", "done"}}

NextSlot(t) ==
    /\ tasks[t].pc = "idle"
    /\ \A u \in Tasks : u < t => tasks[u].pc # "idle"
    /\ Cardinality(Running) < MaxRunning

\* DOMContentLoaded (935-974): initMap, then loadInitialData
PageLoad ==
    /\ tasks[1].pc = "idle"
    /\ Commit(loadInitialData([State EXCEPT !.tasks[1].kind = "load"], 1))

\* the refresh button is clicked: refreshData (756-760)
RefreshData(t) ==
    /\ refreshBtn
    /\ NextSlot(t)
    /\ Commit(loadInitialData(clearAll([State EXCEPT !.tasks[t].kind = "refresh"]), t))

\* a variant that leaves the index's batch count out of the minimum
TargetBatchesOfConfig(zoom, total) ==
    LET additionalBatches == ((zoom - minZoomForMore) * batchesPerZoomLevel) + 1
    IN  Min(initialBatches + additionalBatches, maxBatches)

\* lines 235-240
TargetBatches(zoom, total) ==
    LET additionalBatches == ((zoom - minZoomForMore) * batchesPerZoomLevel) + 1
    IN  Min(Min(initialBatches + additionalBatches, total), maxBatches)

\* a variant that loads more at every zoom level
shouldLoadMoreAtAnyZoom(zoom, size) == size < maxBatches

\* lines 231-232
shouldLoadMore(zoom, size) == zoom >= minZoomForMore /\ size < maxBatches

\* moveend / zoomend, after the debounce: onMapChange (223-254)
OnMapChange(t, zoom, bounds) ==
    /\ tasks[1].pc # "idle"        \* the listeners are added by initMap
    /\ NextSlot(t)
    /\ LET S == [State EXCEPT !.tasks[t].kind = "mapchange", !.tasks[t].zoom = zoom]
       IN  IF shouldLoadMore(zoom, Cardinality(loadedBatches)) /\ index # Null
           THEN Commit(LoadLoop([S EXCEPT !.tasks[t].i = Cardinality(loadedBatches),
                                          !.tasks[t].target =
                                              TargetBatches(zoom, index.total_batches)],
                                t, bounds))
           ELSE Commit(updateMapMarkers(S, t, bounds))

\* loadIndex (81-96): the fetch of data/index.json ends
IndexResponse(t, ok, bounds) ==
    /\ tasks[t].pc = "index"
    /\ LET S == IF ok THEN [State EXCEPT !.index = [total_batches |-> TotalBatches]]
                ELSE [State EXCEPT !.tasks[t].noIndex = TRUE]
       IN  IF S.index = Null
           THEN \* line 161: fetch('./developers-data.json')
                Commit([S EXCEPT !.tasks[t].pc = "file"])
           ELSE Commit(LoadLoop([S EXCEPT !.tasks[t].i = 0,
                                          !.tasks[t].target =
                                              Min(initialBatches, S.index.total_batches)],
                                t, bounds))

\* lines 161-197: the fetch of developers-data.json ends.  outcome: "ok", "empty"
\* (a file without developers), "notok" (response.ok false), "throws" (fetch
\* rejects)
FileResponse(t, outcome, bounds) ==
    /\ tasks[t].pc = "file"
    /\ CanEnd(outcome = "ok")
    /\ LET S0 == [Fetched(State, outcome = "ok") EXCEPT !.tasks[t].file = outcome]
       IN
       IF outcome = "throws"
       THEN Commit(Finish(showError(S0, t, Message("No developer data available")), t))
       ELSE IF outcome = "notok"
       THEN Commit(updateMapMarkers(S0, t, bounds))
       ELSE LET len == IF outcome = "ok" THEN Len(ConsolidatedFile) ELSE 0
                S == [StoreFile(S0, t, 1, len) EXCEPT !.loadedBatches = @ \cup {0},
                                                         !.tasks[t].fileLen = len,
                                                         !.tasks[t].k = 1,
                                                         !.tasks[t].geocoded = 0]
            IN  Commit(FallbackGeocoding(S, t, bounds))

\* delay(100) of the fallback geocoding loop ends
FallbackDelayDone(t, bounds) ==
    /\ tasks[t].pc = "filegeo"
    /\ Commit(FallbackGeocoding(State, t, bounds))

\* the fetch of data/developers-batch-<i>.json ends.  outcome: "ok", "notfound"
\* (status 404), "error" (another status, or fetch rejects)
BatchResponse(t, outcome) ==
    /\ tasks[t].pc = "batch"
    /\ CanEnd(outcome = "ok")
    /\ LET n == tasks[t].i
           S == Fetched(State, outcome = "ok")
       IN  IF outcome = "ok"
           THEN Commit([BatchLoaded(S, t, n) EXCEPT !.tasks[t].pc = "pace"])
           ELSE IF outcome = "notfound"
           THEN \* line 114: fetch('./developers-data.json')
                Commit([S EXCEPT !.tasks[t].pc = "fallback"])
           ELSE Commit(BatchFailed(S, t, n))

\* lines 114-120: the fallback fetch of loadBatch ends; its developers are
\* returned to a caller that drops them
FallbackResponse(t, ok) ==
    /\ tasks[t].pc = "fallback"
    /\ IF ok
       THEN Commit([State EXCEPT !.tasks[t].pc = "pace"])
       ELSE Commit(BatchFailed(State, t, tasks[t].i))

\* delay(100) / delay(200) after loadBatch ends: next round of the loop
PaceDone(t, bounds) ==
    /\ tasks[t].pc = "pace"
    /\ Commit(LoadLoop([State EXCEPT !.tasks[t].i = @ + 1], t, bounds))

\* delay(geocodingDelay) between two geocoding batches ends
GeocodingDelayDone(t) ==
    /\ tasks[t].pc = "geodelay"
    /\ Commit(GeocodingBatches([State EXCEPT !.tasks[t].gi = @ + geocodeBatchSize,
                                             !.tasks[t].pc = "run"], t))

\* delay(markerUpdateDelay) after a location group ends
MarkerDelayDone(t) ==
    /\ tasks[t].pc = "markdelay"
    /\ Commit(CreateMarkers([State EXCEPT !.tasks[t].g = @ + 1, !.tasks[t].pc = "run"], t))

Next ==
    \/ PageLoad
    \/ \E t \in Tasks : RefreshData(t)
    \/ \E t \in Tasks, zoom \in Zooms, bounds \in Views : OnMapChange(t, zoom, bounds)
    \/ \E t \in Tasks, ok \in BOOLEAN, bounds \in Views : IndexResponse(t, ok, bounds)
    \/ \E t \in Tasks, outcome \in {"ok", "empty", "notok", "throws"}, bounds \in Views :
          FileResponse(t, outcome, bounds)
    \/ \E t \in Tasks, bounds \in Views : FallbackDelayDone(t, bounds)
    \/ \E t \in Tasks, outcome \in {"ok", "notfound", "error"} : BatchResponse(t, outcome)
    \/ \E t \in Tasks, ok \in BOOLEAN : FallbackResponse(t, ok)
    \/ \E t \in Tasks, bounds \in Views : PaceDone(t, bounds)
    \/ \E t \in Tasks : GeocodingDelayDone(t)
    \/ \E t \in Tasks : MarkerDelayDone(t)

Spec == Init /\ [][Next]_vars

(***************************************************************************)
(* geocodeLocation called on its own: one call, then the same call again   *)
(***************************************************************************)
\* "<city of the city table>, <its country>", in the spelling of a profile
CityCountryInputs == {
    Str(<<83, 97, 110, 32, 70, 114, 97, 110, 99, 105, 115, 99, 111, 44, 32, 85, 83, 65>>),   \* "San Francisco, USA"
    Str(<<78, 101, 119, 32, 89, 111, 114, 107, 44, 32, 85, 83, 65>>),   \* "New York, USA"
    Str(<<76, 111, 110, 100, 111, 110, 44, 32, 85, 75>>),   \* "London, UK"
    Str(<<66, 101, 114, 108, 105, 110, 44, 32, 71, 101, 114, 109, 97, 110, 121>>),   \* "Berlin, Germany"
    Str(<<84, 111, 107, 121, 111, 44, 32, 74, 97, 112, 97, 110>>),   \* "Tokyo, Japan"
    Str(<<80, 97, 114, 105, 115, 44, 32, 70, 114, 97, 110, 99, 101>>),   \* "Paris, France"
    Str(<<83, 101, 97, 116, 116, 108, 101, 44, 32, 85, 83, 65>>),   \* "Seattle, USA"
    Str(<<66, 111, 115, 116, 111, 110, 44, 32, 85, 83, 65>>),   \* "Boston, USA"
    Str(<<67, 104, 105, 99, 97, 103, 111, 44, 32, 85, 83, 65>>),   \* "Chicago, USA"
    Str(<<65, 117, 115, 116, 105, 110, 44, 32, 85, 83, 65>>),   \* "Austin, USA"
    Str(<<84, 111, 114, 111, 110, 116, 111, 44, 32, 67, 97, 110, 97, 100, 97>>),   \* "Toronto, Canada"
    Str(<<86, 97, 110, 99, 111, 117, 118, 101, 114, 44, 32, 67, 97, 110, 97, 100, 97>>),   \* "Vancouver, Canada"
    Str(<<83, 121, 100, 110, 101, 121, 44, 32, 65, 117, 115, 116, 114, 97, 108, 105, 97>>),   \* "Sydney, Australia"
    Str(<<77, 101, 108, 98, 111, 117, 114, 110, 101, 44, 32, 65, 117, 115, 116, 114, 97, 108, 105, 97>>),   \* "Melbourne, Australia"
    Str(<<65, 109, 115, 116, 101, 114, 100, 97, 109, 44, 32, 78, 101, 116, 104, 101, 114, 108, 97, 110, 100, 115>>),   \* "Amsterdam, Netherlands"
    Str(<<83, 116, 111, 99, 107, 104, 111, 108, 109, 44, 32, 83, 119, 101, 100, 101, 110>>),   \* "Stockholm, Sweden"
    Str(<<67, 111, 112, 101, 110, 104, 97, 103, 101, 110, 44, 32, 68, 101, 110, 109, 97, 114, 107>>),   \* "Copenhagen, Denmark"
    Str(<<72, 101, 108, 115, 105, 110, 107, 105, 44, 32, 70, 105, 110, 108, 97, 110, 100>>),   \* "Helsinki, Finland"
    Str(<<79, 115, 108, 111, 44, 32, 78, 111, 114, 119, 97, 121>>),   \* "Oslo, Norway"
    Str(<<90, 117, 114, 105, 99, 104, 44, 32, 83, 119, 105, 116, 122, 101, 114, 108, 97, 110, 100>>),   \* "Zurich, Switzerland"
    Str(<<86, 105, 101, 110, 110, 97, 44, 32, 65, 117, 115, 116, 114, 105, 97>>),   \* "Vienna, Austria"
    Str(<<77, 97, 100, 114, 105, 100, 44, 32, 83, 112, 97, 105, 110>>),   \* "Madrid, Spain"
    Str(<<66, 97, 114, 99, 101, 108, 111, 110, 97, 44, 32, 83, 112, 97, 105, 110>>),   \* "Barcelona, Spain"
    Str(<<82, 111, 109, 101, 44, 32, 73, 116, 97, 108, 121>>),   \* "Rome, Italy"
    Str(<<77, 105, 108, 97, 110, 44, 32, 73, 116, 97, 108, 121>>),   \* "Milan, Italy"
    Str(<<77, 117, 110, 105, 99, 104, 44, 32, 71, 101, 114, 109, 97, 110, 121>>),   \* "Munich, Germany"
    Str(<<72, 97, 109, 98, 117, 114, 103, 44, 32, 71, 101, 114, 109, 97, 110, 121>>),   \* "Hamburg, Germany"
    Str(<<67, 111, 108, 111, 103, 110, 101, 44, 32, 71, 101, 114, 109, 97, 110, 121>>),   \* "Cologne, Germany"
    Str(<<70, 114, 97, 110, 107, 102, 117, 114, 116, 44, 32, 71, 101, 114, 109, 97, 110, 121>>),   \* "Frankfurt, Germany"
    Str(<<77, 111, 115, 99, 111, 119, 44, 32, 82, 117, 115, 115, 105, 97>>),   \* "Moscow, Russia"
    Str(<<83, 116, 32, 80, 101, 116, 101, 114, 115, 98, 117, 114, 103, 44, 32, 82, 117, 115, 115, 105, 97>>),   \* "St Petersburg, Russia"
    Str(<<87, 97, 114, 115, 97, 119, 44, 32, 80, 111, 108, 97, 110, 100>>),   \* "Warsaw, Poland"
    Str(<<80, 114, 97, 103, 117, 101, 44, 32, 67, 122, 101, 99, 104, 105, 97>>),   \* "Prague, Czechia"
    Str(<<66, 117, 100, 97, 112, 101, 115, 116, 44, 32, 72, 117, 110, 103, 97, 114, 121>>),   \* "Budapest, Hungary"
    Str(<<66, 117, 99, 104, 97, 114, 101, 115, 116, 44, 32, 82, 111, 109, 97, 110, 105, 97>>),   \* "Bucharest, Romania"
    Str(<<83, 111, 102, 105, 97, 44, 32, 66, 117, 108, 103, 97, 114, 105, 97>>),   \* "Sofia, Bulgaria"
    Str(<<65, 116, 104, 101, 110, 115, 44, 32, 71, 114, 101, 101, 99, 101>>),   \* "Athens, Greece"
    Str(<<73, 115, 116, 97, 110, 98, 117, 108, 44, 32, 84, 117, 114, 107, 101, 121>>),   \* "Istanbul, Turkey"
    Str(<<65, 110, 107, 97, 114, 97, 44, 32, 84, 117, 114, 107, 101, 121>>),   \* "Ankara, Turkey"
    Str(<<84, 101, 108, 32, 65, 118, 105, 118, 44, 32, 73, 115, 114, 97, 101, 108>>),   \* "Tel Aviv, Israel"
    Str(<<74, 101, 114, 117, 115, 97, 108, 101, 109, 44, 32, 73, 115, 114, 97, 101, 108>>),   \* "Jerusalem, Israel"
    Str(<<68, 117, 98, 97, 105, 44, 32, 85, 65, 69>>),   \* "Dubai, UAE"
    Str(<<77, 117, 109, 98, 97, 105, 44, 32, 73, 110, 100, 105, 97>>),   \* "Mumbai, India"
    Str(<<68, 101, 108, 104, 105, 44, 32, 73, 110, 100, 105, 97>>),   \* "Delhi, India"
    Str(<<66, 97, 110, 103, 97, 108, 111, 114, 101, 44, 32, 73, 110, 100, 105, 97>>),   \* "Bangalore, India"
    Str(<<66, 101, 110, 103, 97, 108, 117, 114, 117, 44, 32, 73, 110, 100, 105, 97>>),   \* "Bengaluru, India"
    Str(<<72, 121, 100, 101, 114, 97, 98, 97, 100, 44, 32, 73, 110, 100, 105, 97>>),   \* "Hyderabad, India"
    Str(<<67, 104, 101, 110, 110, 97, 105, 44, 32, 73, 110, 100, 105, 97>>),   \* "Chennai, India"
    Str(<<80, 117, 110, 101, 44, 32, 73, 110, 100, 105, 97>>),   \* "Pune, India"
    Str(<<66, 101, 105, 106, 105, 110, 103, 44, 32, 67, 104, 105, 110, 97>>),   \* "Beijing, China"
    Str(<<83, 104, 97, 110, 103, 104, 97, 105, 44, 32, 67, 104, 105, 110, 97>>),   \* "Shanghai, China"
    Str(<<83, 104, 101, 110, 122, 104, 101, 110, 44, 32, 67, 104, 105, 110, 97>>),   \* "Shenzhen, China"
    Str(<<71, 117, 97, 110, 103, 122, 104, 111, 117, 44, 32, 67, 104, 105, 110, 97>>),   \* "Guangzhou, China"
    Str(<<72, 97, 110, 103, 122, 104, 111, 117, 44, 32, 67, 104, 105, 110, 97>>),   \* "Hangzhou, China"
    Str(<<83, 101, 111, 117, 108, 44, 32, 83, 111, 117, 116, 104, 32, 75, 111, 114, 101, 97>>),   \* "Seoul, South Korea"
    Str(<<66, 117, 115, 97, 110, 44, 32, 83, 111, 117, 116, 104, 32, 75, 111, 114, 101, 97>>),   \* "Busan, South Korea"
    Str(<<83, 105, 110, 103, 97, 112, 111, 114, 101, 44, 32, 83, 105, 110, 103, 97, 112, 111, 114, 101>>),   \* "Singapore, Singapore"
    Str(<<66, 97, 110, 103, 107, 111, 107, 44, 32, 84, 104, 97, 105, 108, 97, 110, 100>>),   \* "Bangkok, Thailand"
    Str(<<74, 97, 107, 97, 114, 116, 97, 44, 32, 73, 110, 100, 111, 110, 101, 115, 105, 97>>),   \* "Jakarta, Indonesia"
    Str(<<77, 97, 110, 105, 108, 97, 44, 32, 80, 104, 105, 108, 105, 112, 112, 105, 110, 101, 115>>),   \* "Manila, Philippines"
    Str(<<75, 117, 97, 108, 97, 32, 76, 117, 109, 112, 117, 114, 44, 32, 77, 97, 108, 97, 121, 115, 105, 97>>),   \* "Kuala Lumpur, Malaysia"
    Str(<<72, 111, 32, 67, 104, 105, 32, 77, 105, 110, 104, 44, 32, 86, 105, 101, 116, 110, 97, 109>>),   \* "Ho Chi Minh, Vietnam"
    Str(<<72, 97, 110, 111, 105, 44, 32, 86, 105, 101, 116, 110, 97, 109>>),   \* "Hanoi, Vietnam"
    Str(<<84, 97, 105, 112, 101, 105, 44, 32, 84, 97, 105, 119, 97, 110>>),   \* "Taipei, Taiwan"
    Str(<<72, 111, 110, 103, 32, 75, 111, 110, 103, 44, 32, 67, 104, 105, 110, 97>>),   \* "Hong Kong, China"
    Str(<<77, 97, 99, 97, 117, 44, 32, 67, 104, 105, 110, 97>>)   \* "Macau, China"
}

\* texts that no alias, city pattern or country pattern matches
UnmatchedInputs == {
    Str(<<69, 117, 114, 111, 112, 101>>),   \* "Europe"
    Str(<<69, 85>>),   \* "EU"
    Str(<<69, 117, 114, 97, 115, 105, 97>>),   \* "Eurasia"
    Str(<<65, 115, 105, 97>>),   \* "Asia"
    Str(<<65, 115, 105, 97, 110>>),   \* "Asian"
    Str(<<79, 99, 101, 97, 110, 105, 97>>),   \* "Oceania"
    Str(<<79, 99, 101, 97, 110, 105, 97, 47, 65, 115, 105, 97>>),   \* "Oceania/Asia"
    Str(<<75, 121, 105, 118>>),   \* "Kyiv"
    Str(<<72, 101, 108, 108>>),   \* "Hell"
    Str(<<90, 122, 122>>),   \* "Zzz"
    Str(<<65, 99, 99, 114, 97>>),   \* "Accra"
    Str(<<68, 104, 97, 107, 97>>),   \* "Dhaka"
    Str(<<80, 101, 114, 116, 104>>),   \* "Perth"
    Str(<<81, 117, 101, 101, 110, 115>>),   \* "Queens"
    Str(<<76, 104, 97, 115, 97>>),   \* "Lhasa"
    Str(<<81, 117, 105, 116, 111>>)   \* "Quito"
}

LocBayArea == Str(<<98, 97, 121, 32, 97, 114, 101, 97>>)   \* "bay area"

\* texts caught by a table although they name no place of it
OtherInputs == {
    Str(<<65, 102, 114, 105, 99, 97>>),   \* "Africa"
    Str(<<83, 111, 117, 116, 104, 32, 65, 109, 101, 114, 105, 99, 97>>),   \* "South America"
    Str(<<76, 97, 116, 105, 110, 32, 65, 109, 101, 114, 105, 99, 97>>),   \* "Latin America"
    Str(<<80, 97, 99, 105, 102, 105, 99>>),   \* "Pacific"
    Str(<<97>>),   \* "a"
    Str(<<67, 117, 115, 99, 111>>),   \* "Cusco"
    Str(<<83, 117, 118, 97>>),   \* "Suva"
    Str(<<87, 101, 115, 116, 32, 65, 102, 114, 105, 99, 97>>),   \* "West Africa"
    Str(<<77, 97, 114, 115>>),   \* "Mars"
    Str(<<82, 101, 109, 111, 116, 101, 44, 32, 69, 97, 114, 116, 104>>)   \* "Remote, Earth"
}

GeoInputs ==
    {Null, Str(<< >>), Str(<<32, 32>>), LocBayArea}
        \cup KnownLocations \cup CityCountryInputs \cup UnmatchedInputs \cup OtherInputs

\* the alias loop (295) is reached once location.toLowerCase().trim() has
\* returned
TablesTested(location) == IsString(location)

GeoInit ==
    /\ markers = << >>
    /\ layer = << >>
    /\ loadedBatches = {}
    /\ allDevelopers = << >>
    /\ locationCache = NoFunction
    /\ index = Null
    /\ coordinates = NoFunction
    /\ tasks = [t \in Tasks |-> IdleTask]
    /\ refreshBtn = FALSE
    /\ errors = {}
    /\ faults = 0
    /\ scans = NoFunction
    /\ lastDone = 0
    /\ \E location \in GeoInputs : call = [arg |-> location, calls |-> 0, ret |-> Null]

\* geocodeLocation(call.arg) for the first time
GeoCall ==
    /\ call.calls = 0
    /\ CommitWith(geocodeLocation(State, call.arg),
                  [call EXCEPT !.calls = 1, !.ret = GeocodeResult(State, call.arg)])

\* the same call once more
GeoCallAgain ==
    /\ call.calls = 1
    /\ CommitWith(geocodeLocation(State, call.arg),
                  [call EXCEPT !.calls = 2, !.ret = GeocodeResult(State, call.arg)])

GeoNext == GeoCall \/ GeoCallAgain

GeoSpec == GeoInit /\ [][GeoNext]_vars

(***************************************************************************)
(* getDevelopersInBounds called on its own: on a store of developers that  *)
(* earlier loads and geocoding runs have left, for the view of the map     *)
(***************************************************************************)
SmallStore == 40
MidStore == 150
StoreSizes ==
    {SmallStore, showAllBelow - 1, showAllBelow, showAllBelow + 1, MidStore,
     MaxStore \div 2, MaxStore}

\* points relative to EuropeView: inside it, inside its padding only, on the
\* corner of the padded bounds, and beyond the padding (Tokyo)
InsidePoint == Coords(525200, 134050)
PaddingPoint == Coords(620000, 0)
CornerPoint == Coords(640000, 380000)
OutsidePoint == Coords(356762, 1396503)

\* developer.coordinates of entry pos: where the store's developers are
Placings == {"inside", "padding", "outside", "none", "mixed"}

Placed(placing, pos) ==
    IF placing = "inside" THEN InsidePoint
    ELSE IF placing = "padding" THEN PaddingPoint
    ELSE IF placing = "outside" THEN OutsidePoint
    ELSE IF placing = "none" THEN Null
    ELSE IF pos % 5 = 0 THEN InsidePoint
    ELSE IF pos % 5 = 1 THEN PaddingPoint
    ELSE IF pos % 5 = 2 THEN OutsidePoint
    ELSE IF pos % 5 = 3 THEN Null
    ELSE CornerPoint

LargeStore(n) == [pos \in 1..n |-> [login |-> Fields(LargeObject(pos)).login,
                                    dev |-> LargeObject(pos)]]

SelectInit ==
    /\ markers = << >>
    /\ layer = << >>
    /\ loadedBatches = {}
    /\ locationCache = NoFunction
    /\ index = Null
    /\ tasks = [t \in Tasks |-> IdleTask]
    /\ refreshBtn = FALSE
    /\ errors = {}
    /\ faults = 0
    /\ scans = NoFunction
    /\ lastDone = 0
    /\ \E n \in StoreSizes, placing \in Placings :
          /\ allDevelopers = LargeStore(n)
          /\ coordinates = [o \in {LargeObject(pos) : pos \in 1..n} |->
                               Placed(placing, o.pos)]
    /\ \E bounds \in Views : call = [arg |-> bounds, calls |-> 0, ret |-> << >>]

\* getDevelopersInBounds(map.getBounds())
SelectCall ==
    /\ call.calls = 0
    /\ CommitWith(State, [call EXCEPT !.calls = 1,
                                      !.ret = getDevelopersInBounds(State, call.arg)])

\* the same after the map has moved to another view
SelectCallMoved ==
    /\ call.calls = 1
    /\ \E bounds \in Views \ {call.arg} :
          CommitWith(State, [arg |-> bounds, calls |-> 2,
                             ret |-> getDevelopersInBounds(State, bounds)])

SelectNext == SelectCall \/ SelectCallMoved

SelectSpec == SelectInit /\ [][SelectNext]_vars

(***************************************************************************)
(* The list view (app.js 767-933): renderDeveloperList on a store of       *)
(* developers with the fields the list reads                               *)
(***************************************************************************)
MaxList == 60       \* the largest store the list is rendered from
displayBudget == 50    \* app-working.js: sortedDevelopers.slice(0, 50)

NameAdaBerlin == Str(<<65, 100, 97, 32, 66, 101, 114, 108, 105, 110>>)   \* "Ada Berlin"
NameBOB == Str(<<66, 79, 66>>)   \* "BOB"
BioRust == Str(<<82, 117, 115, 116, 32, 104, 97, 99, 107, 101, 114>>)   \* "Rust hacker"
CompanyACME == Str(<<65, 67, 77, 69>>)   \* "ACME"

\* the login of entry pos: "u07"
ListLogin(pos) == Str(<<117, 48 + (pos \div 10), 48 + (pos % 10)>>)

\* entry pos of the data source of the list: names, bios, locations and
\* companies are present, null or empty in turn; total_stars has ties, zeros
\* and nulls
ListEntry(pos) ==
    [login |-> ListLogin(pos),
     name |-> IF pos % 4 = 1 THEN NameAdaBerlin
              ELSE IF pos % 4 = 2 THEN NameBOB
              ELSE IF pos % 4 = 3 THEN Str(<< >>) ELSE Null,
     bio |-> IF pos % 3 = 0 THEN BioRust ELSE Null,
     location |-> IF pos % 5 = 0 THEN LocBerlin
                  ELSE IF pos % 5 = 1 THEN LocTokyo ELSE Null,
     company |-> IF pos % 7 = 0 THEN CompanyACME ELSE Null,
     total_stars |-> IF pos % 9 = 0 THEN Null ELSE Some(((pos * 7) % 10) * 100),
     followers |-> Some(pos % 6),
     public_repos |-> Some(MaxList - pos)]

ListObject(pos) == [by |-> 0, file |-> FALSE, batch |-> 0, pos |-> pos]

\* the fields of a developer of the list
Profile(o) == ListEntry(o.pos)

ListStore(n) == [pos \in 1..n |-> [login |-> ToString(pos), dev |-> ListObject(pos)]]

ListSizes == {0, 3, 12, displayBudget - 1, displayBudget, displayBudget + 1, MaxList}

\* the values of the sort select and what is typed into the search input
SortFields == {"total_stars", "followers", "public_repos"}

SearchInputs ==
    {<< >>,
     <<98, 101, 114, 108, 105, 110>>,   \* "berlin"
     <<66, 69, 82>>,   \* "BER"
     <<97, 99, 109, 101>>,   \* "acme"
     <<82, 117, 115, 116>>,   \* "Rust"
     <<117, 49>>,   \* "u1"
     <<32>>,   \* " "
     <<122, 122, 122>>}   \* "zzz"

SearchedFields == {"name", "login", "bio", "location", "company"}

\* a variant that looks for the query as it was typed
SearchMatchesVerbatim(o, searchQuery) ==
    \/ Len(searchQuery) = 0
    \/ \E f \in SearchedFields :
          /\ Truthy(Profile(o)[f])
          /\ includes(toLowerCase(Profile(o)[f].chars), searchQuery)

\* lines 804-813: the callback of developers.filter
SearchMatches(o, searchQuery) ==
    \/ Len(searchQuery) = 0
    \/ LET query == toLowerCase(searchQuery)
       IN  \E f \in SearchedFields :
              /\ Truthy(Profile(o)[f])
              /\ includes(toLowerCase(Profile(o)[f].chars), query)

\* lines 816-820: filteredDevelopers.sort, a stable sort
SortBySelected(s, currentSort) ==
    LET Before(a, b) == Num(Profile(a)[currentSort]) > Num(Profile(b)[currentSort])
    IN  SortSeq(s, Before)

\* renderDeveloperList: the developers of the items of developerList, in order
renderDeveloperList(S, searchQuery, currentSort) ==
    LET developers == [p \in 1..Len(S.allDevelopers) |-> S.allDevelopers[p].dev]
        Shown(o) == SearchMatches(o, searchQuery)
        filteredDevelopers == SelectSeq(developers, Shown)
    IN  SortBySelected(filteredDevelopers, currentSort)

ListInit ==
    /\ markers = << >>
    /\ layer = << >>
    /\ loadedBatches = {}
    /\ locationCache = NoFunction
    /\ index = Null
    /\ tasks = [t \in Tasks |-> IdleTask]
    /\ refreshBtn = FALSE
    /\ errors = {}
    /\ faults = 0
    /\ scans = NoFunction
    /\ lastDone = 0
    /\ \E n \in ListSizes :
          /\ allDevelopers = ListStore(n)
          /\ coordinates = [o \in {ListObject(pos) : pos \in 1..n} |-> Null]
    /\ call = [currentView |-> "map", currentSort |-> "total_stars",
               searchQuery |-> << >>, developerList |-> << >>]

\* toggleView
ToggleView ==
    IF call.currentView = "map"
    THEN CommitWith(State, [call EXCEPT !.currentView = "list",
                               !.developerList =
                                   renderDeveloperList(State, call.searchQuery,
                                                       call.currentSort)])
    ELSE CommitWith(State, [call EXCEPT !.currentView = "map"])

\* the change listener of sortSelect
SortChange ==
    \E f \in SortFields \ {call.currentSort} :
        CommitWith(State,
            [call EXCEPT !.currentSort = f,
                         !.developerList =
                             IF call.currentView = "list"
                             THEN renderDeveloperList(State, call.searchQuery, f)
                             ELSE @])

\* the input listener of searchInput
SearchInput ==
    \E q \in SearchInputs \ {call.searchQuery} :
        CommitWith(State,
            [call EXCEPT !.searchQuery = q,
                         !.developerList =
                             IF call.currentView = "list"
                             THEN renderDeveloperList(State, q, call.currentSort)
                             ELSE @])

ListNext == ToggleView \/ SortChange \/ SearchInput

ListSpec == ListInit /\ [][ListNext]_vars

(***************************************************************************)
(* Marker refreshes on a store of many developers: the page has loaded the *)
(* single file (no index) and the map is moved                             *)
(***************************************************************************)
TokyoView == [south |-> 300000, west |-> 1350000, north |-> 400000, east |-> 1450000]
MovedViews == {EuropeView, TokyoView}

RefreshSizes ==
    {SmallStore, showAllBelow, showAllBelow + 1, showAllBelow + 20, MidStore,
     MidStore + 10}

\* beyond the padding of both views (Sydney)
FarPoint == Coords(-338688, 1512093)

\* developer.coordinates of entry pos: most developers are far from both
\* views, one in ten is in Berlin, one in ten in Tokyo and one in ten has no
\* coordinates yet
Scattered(pos) ==
    IF pos % 10 = 3 THEN Null
    ELSE IF pos % 10 = 7 THEN OutsidePoint
    ELSE IF pos % 10 = 9 THEN InsidePoint
    ELSE FarPoint

\* the callback of the page load has returned
LoadedTask == [IdleTask EXCEPT !.kind = "load", !.pc = "done", !.noIndex = TRUE]

ViewInit ==
    /\ markers = << >>
    /\ layer = << >>
    /\ loadedBatches = {}
    /\ locationCache = NoFunction
    /\ index = Null
    /\ tasks = [t \in Tasks |-> IF t = 1 THEN LoadedTask ELSE IdleTask]
    /\ refreshBtn = FALSE
    /\ errors = {}
    /\ faults = 0
    /\ scans = NoFunction
    /\ lastDone = 0
    /\ \E n \in RefreshSizes :
          /\ allDevelopers = LargeStore(n)
          /\ coordinates = [o \in {LargeObject(pos) : pos \in 1..n} |->
                               Scattered(o.pos)]
    /\ \E bounds \in MovedViews : call = [arg |-> bounds, calls |-> 0, ret |-> << >>]

\* moveend / zoomend while the map shows the view call.arg
ViewChange == \E t \in Tasks, zoom \in Zooms : OnMapChange(t, zoom, call.arg)

ViewNext ==
    \/ ViewChange
    \/ \E t \in Tasks : MarkerDelayDone(t)

ViewSpec == ViewInit /\ [][ViewNext]_vars

(***************************************************************************)
(* debounce (app.js 67-78): one wrapper, the timers it sets and the calls  *)
(* of func it makes.  Time is counted in units of 100 ms.                  *)
(***************************************************************************)
debounceWait == 5     \* initMap: debounce(onMapChange, 500)
MaxCalls == 4         \* calls of the wrapper in a run
MaxTime == 16         \* the run ends at this time

\* a variant of clearTimeout that cancels nothing
clearNothing(timers, id) == timers

\* clearTimeout(id): the timer is cancelled if it is pending; undefined (0)
\* and the ids of timers that have run cancel nothing
clearTimeout(timers, id) == {x \in timers : x.id # id}

\* setTimeout(later, wait) at time now, later holding args; the id is new
setTimeout(timers, id, now, args) ==
    timers \cup {[id |-> id, due |-> now + debounceWait, args |-> args]}

DebounceInit ==
    /\ markers = << >>
    /\ layer = << >>
    /\ loadedBatches = {}
    /\ allDevelopers = << >>
    /\ locationCache = NoFunction
    /\ index = Null
    /\ coordinates = NoFunction
    /\ tasks = [t \in Tasks |-> IdleTask]
    /\ refreshBtn = FALSE
    /\ errors = {}
    /\ faults = 0
    /\ scans = NoFunction
    /\ lastDone = 0
    /\ call = [now |-> 0,
               timeout |-> 0,       \* let timeout: undefined
               timers |-> {},       \* the pending timers of the page
               calls |-> << >>,     \* the time of every call of the wrapper
               invoked |-> << >>]   \* the calls of func: time and arguments

\* executedFunction(...args): the event of the k-th call is its argument
DebouncedCall ==
    /\ Len(call.calls) < MaxCalls
    /\ LET k == Len(call.calls) + 1
       IN  CommitWith(State,
               [call EXCEPT !.calls = Append(@, call.now),
                            !.timers = setTimeout(clearTimeout(@, call.timeout), k,
                                                  call.now, k),
                            !.timeout = k])

\* a timer is due: later() runs
TimerFires ==
    \E x \in call.timers :
        /\ x.due <= call.now
        /\ CommitWith(State,
               [call EXCEPT !.timers = clearTimeout(@ \ {x}, call.timeout),
                            !.invoked = Append(@, [at |-> call.now, args |-> x.args])])

\* 100 ms pass; a timer that is due runs first
TimePasses ==
    /\ call.now < MaxTime
    /\ \A x \in call.timers : x.due > call.now
    /\ CommitWith(State, [call EXCEPT !.now = @ + 1])

DebounceNext == DebouncedCall \/ TimerFires \/ TimePasses

DebounceSpec == DebounceInit /\ [][DebounceNext]_vars

(***************************************************************************)
(* The download script (download-developers-v2.js): the files of the data  *)
(* directory, the runs of the script, and GitHub as the script sees it.    *)
(* A user is a number; its login is the number.                            *)
(***************************************************************************)
developersPerFile == 500    \* CONFIG.developersPerFile
maxPages == 10              \* CONFIG.maxPages
minFollowers == 50          \* CONFIG.minFollowers
perPage == 100              \* fetchDevelopersForQuery: per_page=100
startRemaining == 100       \* downloadDevelopers: remaining < 100
exitRemaining == 50         \* downloadDevelopers: currentRemaining < 50
stopRemaining == 10         \* fetchDevelopersForQuery: remaining < 10

NumQueries == 3     \* the queries of SEARCH_STRATEGIES the runs work through
MaxRuns == 2        \* starts of the script

\* rate.remaining as checkRateLimit returns it (0 when its request fails)
RemainingValues == {0, 30, 70, 5000}

\* what GitHub holds: the users a query finds, in the order of the search
Worlds == {"large first", "small first"}

Range(lo, hi) == [k \in 1..(hi - lo + 1) |-> lo + k - 1]

SearchResults(world, q) ==
    IF world = "large first"
    THEN IF q = 1 THEN Range(1, 1000)
         ELSE IF q = 2 THEN Range(401, 650)
         ELSE IF q = 3 THEN Range(2001, 2030)
         ELSE << >>
    ELSE IF q = 1 THEN Range(2001, 2030)
         ELSE IF q = 2 THEN Range(1, 1000)
         ELSE IF q = 3 THEN Range(901, 1100)
         ELSE << >>

\* searchResult.data.items of page p
SearchPage(world, q, p) ==
    LET all == SearchResults(world, q)
    IN  IF (p - 1) * perPage >= Len(all) THEN << >>
        ELSE SubSeq(all, (p - 1) * perPage + 1, Min(p * perPage, Len(all)))

\* the profile of user u: every 7th has few followers, every 11th no location;
\* the request for the details of every 13th fails
UserFollowers(u) == IF u % 7 = 0 THEN minFollowers - 1 ELSE minFollowers + u
UserHasLocation(u) == u % 11 # 0
DetailsFail(u) == u % 13 = 0

NewProgress == [currentBatch |-> 0, processedQueries |-> {}, totalDevelopers |-> 0]

\* loadProgress (289-300)
loadProgress(D) == IF D.progressFile # Null THEN D.progressFile ELSE NewProgress

\* saveProgress (303-307)
saveProgress(D) == [D EXCEPT !.progressFile = D.progress]

\* loadCurrentBatch (310-321)
loadCurrentBatch(D, n) ==
    IF n \in DOMAIN D.batchFiles
    THEN [batch |-> n, developers |-> D.batchFiles[n]]
    ELSE [batch |-> n, developers |-> << >>]

\* saveBatch (324-330)
saveBatch(D) ==
    [D EXCEPT !.batchFiles =
        [n \in DOMAIN D.batchFiles \cup {D.currentBatch.batch} |->
            IF n = D.currentBatch.batch THEN D.currentBatch.developers
            ELSE D.batchFiles[n]]]

RECURSIVE TotalInBatches(_, _)
TotalInBatches(files, ns) ==
    IF ns = {} THEN 0
    ELSE LET n == CHOOSE m \in ns : TRUE
         IN  Len(files[n]) + TotalInBatches(files, ns \ {n})

\* createIndex (333-369)
createIndex(D) ==
    [D EXCEPT !.indexFile =
        [total_developers |-> TotalInBatches(D.batchFiles, DOMAIN D.batchFiles),
         total_batches |-> Cardinality(DOMAIN D.batchFiles)]]

\* the process ends: what it held in memory is gone
ProcessEnds(D) ==
    [D EXCEPT !.pc = "off", !.progress = Null, !.currentBatch = Null,
              !.existingLogins = {}, !.qi = 0, !.page = 0, !.developers = << >>]

\* lines 607-619: the final batch, the index, and a last checkRateLimit
LastSave(D) ==
    LET D1 == IF Len(D.currentBatch.developers) > 0 THEN saveBatch(D) ELSE D
    IN  [createIndex(D1) EXCEPT !.pc = "final"]

\* lines 548-562: the loops over the strategies and their queries, from query
\* D.qi on, up to the search request of fetchDevelopersForQuery
RECURSIVE NextQuery(_)
NextQuery(D) ==
    IF D.qi > NumQueries THEN LastSave(D)
    ELSE IF D.qi \in D.progress.processedQueries
         THEN NextQuery([D EXCEPT !.qi = @ + 1])
         ELSE [D EXCEPT !.pc = "page", !.page = 1, !.developers = << >>]

\* lines 564-592: fetchDevelopersForQuery has returned D.developers
QueryFetched(D) ==
    LET new == D.developers
        D1 == [D EXCEPT !.currentBatch.developers = @ \o new,
                        !.progress.totalDevelopers = @ + Len(new),
                        !.progress.processedQueries = @ \cup {D.qi},
                        !.found = [@ EXCEPT ![D.qi] = {new[k] : k \in 1..Len(new)}]]
        D2 == saveProgress(D1)
        D3 == IF Len(D2.currentBatch.developers) >= developersPerFile
              THEN LET A == saveBatch(D2)
                       B == [A EXCEPT !.progress.currentBatch = @ + 1]
                       C == [B EXCEPT !.currentBatch =
                                          loadCurrentBatch(B, B.progress.currentBatch),
                                      !.existingLogins = {}]
                   IN  saveProgress(C)
              ELSE D2
    IN  [D3 EXCEPT !.pc = "between", !.developers = << >>, !.page = 0]

\* lines 435-505: the users of a page, one after the other; a page holds no
\* user twice
PageFetched(D, items) ==
    LET Added(u) == /\ u \notin D.existingLogins
                    /\ ~DetailsFail(u)
                    /\ UserHasLocation(u)
                    /\ UserFollowers(u) >= minFollowers
        added == SelectSeq(items, Added)
    IN  [D EXCEPT !.developers = @ \o added,
                  !.existingLogins = @ \cup {added[k] : k \in 1..Len(added)},
                  !.page = @ + 1]

DlInit ==
    /\ markers = << >>
    /\ layer = << >>
    /\ loadedBatches = {}
    /\ allDevelopers = << >>
    /\ locationCache = NoFunction
    /\ index = Null
    /\ coordinates = NoFunction
    /\ tasks = [t \in Tasks |-> IdleTask]
    /\ refreshBtn = FALSE
    /\ errors = {}
    /\ faults = 0
    /\ scans = NoFunction
    /\ lastDone = 0
    /\ \E world \in Worlds :
          call = [world |-> world,
                  pc |-> "off",            \* the await the script is suspended at
                  runs |-> 0,
                  progressFile |-> Null,   \* data/progress.json
                  batchFiles |-> NoFunction,   \* data/developers-batch-<n>.json
                  indexFile |-> Null,      \* data/index.json
                  found |-> [q \in 1..NumQueries |-> {}],   \* newDevelopers of each query
                  progress |-> Null,
                  currentBatch |-> Null,
                  existingLogins |-> {},
                  qi |-> 0,                \* the query the loops are at
                  page |-> 0,
                  developers |-> << >>]    \* fetchDevelopersForQuery: developers

\* node download-developers-v2.js: up to the first checkRateLimit (531)
ScriptStarts ==
    /\ call.pc = "off"
    /\ call.runs < MaxRuns
    /\ CommitWith(State, [call EXCEPT !.pc = "start", !.runs = @ + 1])

\* lines 531-546
StartChecked(remaining) ==
    /\ call.pc = "start"
    /\ IF remaining < startRemaining
       THEN CommitWith(State, ProcessEnds(call))
       ELSE LET p == loadProgress(call)
                cb == loadCurrentBatch(call, p.currentBatch)
            IN  CommitWith(State,
                    NextQuery([call EXCEPT !.progress = p,
                                           !.currentBatch = cb,
                                           !.existingLogins =
                                               {cb.developers[k] : k \in 1..Len(cb.developers)},
                                           !.qi = 1]))

\* the search request of line 426 ends.  outcome: "ok", "forbidden" (status
\* 403), "error" (another status, or the request fails)
SearchResponse(outcome) ==
    /\ call.pc = "page"
    /\ IF outcome = "ok"
       THEN LET items == SearchPage(call.world, call.qi, call.page)
            IN  IF Len(items) = 0
                THEN CommitWith(State, QueryFetched(call))
                ELSE LET D == PageFetched(call, items)
                     IN  IF D.page <= maxPages
                         THEN CommitWith(State, D)
                         ELSE CommitWith(State, QueryFetched(D))
       ELSE IF outcome = "forbidden"
       THEN CommitWith(State, [call EXCEPT !.pc = "limit"])
       ELSE CommitWith(State, [call EXCEPT !.pc = "retry"])

\* lines 511-518: checkRateLimit after a 403
LimitChecked(remaining) ==
    /\ call.pc = "limit"
    /\ IF remaining < stopRemaining
       THEN CommitWith(State, QueryFetched(call))
       ELSE CommitWith(State, [call EXCEPT !.pc = "retry"])

\* line 519: delay(searchDelayMs) ends; the loop asks for the same page
RetryDelayDone ==
    /\ call.pc = "retry"
    /\ CommitWith(State, [call EXCEPT !.pc = "page"])

\* lines 594-603: the delay and the checkRateLimit after a query
BetweenChecked(remaining) ==
    /\ call.pc = "between"
    /\ IF remaining < exitRemaining
       THEN CommitWith(State, ProcessEnds(createIndex(saveBatch(call))))
       ELSE CommitWith(State, NextQuery([call EXCEPT !.qi = @ + 1]))

\* line 619: the last checkRateLimit ends and the script returns
FinalChecked ==
    /\ call.pc = "final"
    /\ CommitWith(State, ProcessEnds(call))

\* the process is killed while it waits
ScriptCrashes ==
    /\ call.pc # "off"
    /\ CommitWith(State, ProcessEnds(call))

DlNext ==
    \/ ScriptStarts
    \/ ScriptCrashes
    \/ \E remaining \in RemainingValues : StartChecked(remaining)
    \/ \E outcome \in {"ok", "forbidden", "error"} : SearchResponse(outcome)
    \/ \E remaining \in RemainingValues : LimitChecked(remaining)
    \/ RetryDelayDone
    \/ \E remaining \in RemainingValues : BetweenChecked(remaining)
    \/ FinalChecked

DlSpec == DlInit /\ [][DlNext]_vars

\* every request and every delay of the script ends
DlLiveSpec == DlSpec /\ WF_vars(DlNext)

(***************************************************************************)
(* Properties                                                              *)
(***************************************************************************)
\* an updateMapMarkers call is suspended inside its try block
InUpdate(t) == tasks[t].pc \in {"geodelay", "markdelay"}

Logins(file) == {file[p].login : p \in 1..Len(file)}

\* C1: the Developer Store holds one record per login, and a record that is
\* present is never replaced by a later load (batch or single file): a login
\* that is in the store before and after a step maps to the same object.
C1_FirstWriteWins ==
    [][/\ \A p, q \in 1..Len(allDevelopers') :
             allDevelopers'[p].login = allDevelopers'[q].login => p = q
       /\ \A p \in 1..Len(allDevelopers) :
             MapHas(allDevelopers', allDevelopers[p].login)
                => MapGet(allDevelopers', allDevelopers[p].login) = allDevelopers[p].dev]_vars

\* C2: in every reachable state loadedBatches is a contiguous prefix
\* {0, ..., k-1} of the batch indices, and no loop requests a batch at or
\* beyond the total of the index.
C2_ContiguousPrefix ==
    /\ loadedBatches = 0..(Cardinality(loadedBatches) - 1)
    /\ \A t \in Tasks : tasks[t].pc \in {"batch", "fallback"} => tasks[t].i < TotalBatches

\* C3: the tables are scanned at most once for each location string, and every
\* later resolution of the string gives the coordinate the cache holds: each
\* developer that was geocoded carries the cached coordinate of its location.
C3_OneScanPerLocation ==
    /\ \A l \in DOMAIN scans : scans[l] <= 1 /\ l \in DOMAIN locationCache
    /\ \A o \in DOMAIN coordinates :
          (coordinates[o] # Null /\ Fields(o).coordinates = Null)
             => /\ Fields(o).location \in DOMAIN locationCache
                /\ coordinates[o] = locationCache[Fields(o).location]

\* two developers with the same location string were resolved inside one
\* updateMapMarkers call, and a refreshData has reloaded and redrawn since
C3_Witness ==
    /\ \E t \in Tasks : tasks[t].kind = "refresh" /\ tasks[t].pc = "done" /\ lastDone = t
    /\ \E p, q \in 1..Len(markers) :
          /\ p # q
          /\ Fields(markers[p].dev).location = Fields(markers[q].dev).location
          /\ Fields(markers[p].dev).coordinates = Null
          /\ Fields(markers[q].dev).coordinates = Null
          /\ markers[p].dev.by = markers[q].dev.by
          /\ scans[Fields(markers[p].dev).location] = 1

\* C4: when updateMapMarkers catches an error, a notice is shown and the
\* markers after the call are the markers from before the call.
C4_PreviousMarkersKept ==
    \A t \in Tasks :
        tasks[t].caught =>
            /\ [by |-> t, msg |-> Message("Failed to update map markers")] \in errors
            /\ tasks[t].after = tasks[t].before

\* C5: when no updateMapMarkers call is in progress, every marker on the map
\* was added by the call that returned last.
C5_LastFinisherWins ==
    (lastDone # 0 /\ \A t \in Tasks : ~InUpdate(t))
        => \A p \in 1..Len(markers) : markers[p].by = lastDone

\* C6: loadBatch issues the fallback fetch of the single file after a 404
\* only while loadedBatches is empty.
C6_FallbackOnlyWhenNothingLoaded ==
    [][\A t \in Tasks :
          (tasks[t].pc = "batch" /\ tasks'[t].pc = "fallback") => loadedBatches = {}]_vars

\* the fallback fetch of callback t ends with the file
FallbackSucceeds(t) ==
    /\ tasks[t].pc = "fallback"
    /\ tasks'[t].pc = "pace"
    /\ [by |-> t, msg |-> BatchError(tasks[t].i)] \notin errors'

\* C7: when the fallback fetch of loadBatch succeeds, the store holds every
\* developer of the single file once loadBatch has returned.
C7_FallbackMerged ==
    [][\A t \in Tasks :
          FallbackSucceeds(t)
             => \A login \in Logins(ConsolidatedFile) : MapHas(allDevelopers', login)]_vars

\* C8: a loadInitialData that got no index and no developer from the single
\* file (fetch rejected, response not ok, or a file without developers) has
\* called showError by the time it returns.
C8_ExplicitErrorState ==
    \A t \in Tasks :
        (tasks[t].pc = "done" /\ tasks[t].file \in {"empty", "notok", "throws"})
            => \E e \in errors : e.by = t

\* C9: the step of refreshData leaves markers, store, loadedBatches,
\* locationCache and index empty or unset, and has started loadInitialData.
C9_RefreshResetsAll ==
    [][\A t \in Tasks :
          (tasks[t].kind = "none" /\ tasks'[t].kind = "refresh")
             => /\ markers' = << >>
                /\ layer' = << >>
                /\ allDevelopers' = << >>
                /\ loadedBatches' = {}
                /\ locationCache' = NoFunction
                /\ index' = Null
                /\ tasks'[t].pc = "index"]_vars

\* C10: an entry of locationCache stays, with its value, in every step.
C10_CacheEntriesStay ==
    [][\A l \in DOMAIN locationCache :
          l \in DOMAIN locationCache' /\ locationCache'[l] = locationCache[l]]_vars

\* the cache holds entries, and clearAll and refreshData have run over it and
\* a later updateMapMarkers has read from it
C10_Witness ==
    /\ Cardinality(DOMAIN locationCache) >= geocodeBatchSize
    /\ \E t \in Tasks : /\ tasks[t].kind = "refresh"
                        /\ tasks[t].pc = "done"
                        /\ tasks[t].promises = 0
                        /\ Len(tasks[t].shown) > 0

\* the argument of the call as the tables see it
Normalized(location) == trim(toLowerCase(location.chars))

CitiesNamed(n) == {i \in 1..Len(cityPatterns) : includes(n, cityPatterns[i].pattern)}

RegionsNamed(n) == {j \in 1..Len(locationMappings) : includes(n, locationMappings[j].pattern)}

\* C11: geocodeLocation(null) and geocodeLocation("") return the unresolved
\* result (null) and test the input against no table.
C11_EmptyIsUnresolved ==
    (call.calls > 0 /\ call.arg \in {Null, Str(<< >>)})
        => (call.ret = Null /\ ~TablesTested(call.arg))

\* C12: when the normalized text names a city of the city table and also a
\* country, region or state, the result is the coordinate of a city of the city
\* table that the text names.
C12_CityBeforeCountry ==
    (call.calls > 0 /\ call.arg # Null
        /\ CitiesNamed(Normalized(call.arg)) # {}
        /\ RegionsNamed(Normalized(call.arg)) # {})
        => \E i \in CitiesNamed(Normalized(call.arg)) :
              call.ret = Coords(cityPatterns[i].lat, cityPatterns[i].lng)

\* C13: "San Francisco, CA", "SF" and "bay area" all give the San Francisco
\* coordinate (37.7749, -122.4194); "Lagos" gives the fixed default
\* coordinate, which is a coordinate and not a failure.
C13_SanFranciscoAndLagos ==
    call.calls > 0 =>
        /\ call.arg \in {LocSanFranciscoCA, LocSF, LocBayArea}
              => call.ret = Coords(377749, -1224194)
        /\ call.arg = LocLagos => call.ret = Coords(377749, -1224194)

\* "bay area" has been resolved, twice
C13_Witness == call.calls = 2 /\ call.arg = LocBayArea /\ call.ret # Null

\* the continent rules in the order Europe, Asia, Africa, South America,
\* Oceania, then the one fixed default
ContinentRule(n) ==
    IF includes(n, <<101, 117, 114, 111, 112, 101>>) \/ includes(n, <<101, 117>>)
    THEN Coords(515074, -1278)
    ELSE IF includes(n, <<97, 115, 105, 97>>)
    THEN Coords(356762, 1396503)
    ELSE IF includes(n, <<97, 102, 114, 105, 99, 97>>)
    THEN Coords(-262041, 280473)
    ELSE IF includes(n, <<115, 111, 117, 116, 104, 32, 97, 109, 101, 114, 105, 99, 97>>)
            \/ includes(n, <<108, 97, 116, 105, 110>>)
    THEN Coords(-235505, -466333)
    ELSE IF includes(n, <<111, 99, 101, 97, 110, 105, 97>>)
            \/ includes(n, <<112, 97, 99, 105, 102, 105, 99>>)
    THEN Coords(-338688, 1512093)
    ELSE Coords(377749, -1224194)

NoTableMatches(n) ==
    /\ \A i \in 1..Len(MAJOR_LOCATIONS) : ~AliasMatches(MAJOR_LOCATIONS[i], n)
    /\ CitiesNamed(n) = {}
    /\ RegionsNamed(n) = {}

\* C14: for a non-empty text that no alias, city or country pattern matches,
\* the result is the coordinate of the first continent rule that applies, else
\* the fixed default; it is never null, and the cache holds it.
C14_FallbackCoordinate ==
    (call.calls > 0 /\ call.arg # Null /\ Len(call.arg.chars) > 0
        /\ NoTableMatches(Normalized(call.arg)))
        => /\ call.ret = ContinentRule(Normalized(call.arg))
           /\ call.ret # Null
           /\ call.arg \in DOMAIN locationCache
           /\ locationCache[call.arg] = call.ret

\* "Oceania/Asia" names two continents and matches no table: the Asia rule
\* has answered
C14_Witness ==
    /\ call.calls > 0
    /\ call.arg = Str(<<79, 99, 101, 97, 110, 105, 97, 47, 65, 115, 105, 97>>)
    /\ NoTableMatches(Normalized(call.arg))
    /\ call.ret = Coords(356762, 1396503)

(***************************************************************************)
(* C15..C17: getDevelopersInBounds                                         *)
(***************************************************************************)
Called == call.calls >= 1

StorePositions == 1..Len(allDevelopers)

StorePos(o) == CHOOSE p \in StorePositions : allDevelopers[p].dev = o

FollowersAt(p) == Num(Fields(allDevelopers[p].dev).followers)

CoordinatesAt(p) == coordinates[allDevelopers[p].dev]

HasLocationAt(p) == Truthy(Fields(allDevelopers[p].dev).location)

\* c lies in the bounds b widened on each side by a fifth of their extent
InPaddedRegion(b, c) ==
    /\ 5 * (c.lat - b.south) >= -(b.north - b.south)
    /\ 5 * (b.north - c.lat) >= -(b.north - b.south)
    /\ 5 * (c.lng - b.west) >= -(b.east - b.west)
    /\ 5 * (b.east - c.lng) >= -(b.east - b.west)

\* the candidates of a large store, as positions of the store
RegionCandidates(b) ==
    {p \in StorePositions :
        \/ CoordinatesAt(p) # Null /\ InPaddedRegion(b, CoordinatesAt(p))
        \/ CoordinatesAt(p) = Null /\ HasLocationAt(p)}

\* the candidates of a small store
PlaceableDevelopers ==
    {p \in StorePositions : CoordinatesAt(p) # Null \/ HasLocationAt(p)}

CandidatePositions(b) ==
    IF Len(allDevelopers) < showAllBelow THEN PlaceableDevelopers ELSE RegionCandidates(b)

Returned == {StorePos(call.ret[k]) : k \in 1..Len(call.ret)}

\* p comes before q in the candidate list ordered by followers descending,
\* ties in insertion order
OrderedBefore(p, q) ==
    \/ FollowersAt(p) > FollowersAt(q)
    \/ FollowersAt(p) = FollowersAt(q) /\ p < q

C16_CandidatesOfRegion ==
    (Called /\ Len(allDevelopers) >= showAllBelow) =>
        /\ Returned \subseteq RegionCandidates(call.arg)
        /\ Cardinality(RegionCandidates(call.arg)) <= developersPerView
              => Returned = RegionCandidates(call.arg)
        /\ Len(call.ret) = Min(Cardinality(RegionCandidates(call.arg)), developersPerView)
        /\ \A p \in StorePositions :
              (CoordinatesAt(p) # Null /\ ~InPaddedRegion(call.arg, CoordinatesAt(p)))
                 => p \notin Returned

\* a large store with developers inside the view, in its padding, beyond it
\* and without coordinates: some are returned, one in the padding among
\* them, and one beyond the padding is left out
C16_Witness ==
    /\ Called
    /\ Len(allDevelopers) >= showAllBelow
    /\ call.arg = EuropeView
    /\ \E p \in Returned : CoordinatesAt(p) = PaddingPoint
    /\ \E p \in Returned : CoordinatesAt(p) = Null
    /\ \E p \in StorePositions \ Returned : CoordinatesAt(p) = OutsidePoint

\* C17 (as stated): with fewer than 100 developers in the store,
\* getDevelopersInBounds returns every developer of the store, whatever the
\* bounds.
C17_BypassReturnsAll ==
    (Called /\ Len(allDevelopers) < showAllBelow) => Returned = StorePositions

\* C17 (amended): with fewer than 100 developers in the store,
\* getDevelopersInBounds returns every developer of the store that has
\* coordinates or a location string, whatever the bounds.
C17_BypassReturnsPlaceable ==
    (Called /\ Len(allDevelopers) < showAllBelow) => Returned = PlaceableDevelopers

\* 40 developers, all with coordinates outside the padded view: all 40 returned
C17_Witness ==
    /\ Called
    /\ Len(allDevelopers) = SmallStore
    /\ call.arg = EuropeView
    /\ \A p \in StorePositions :
          CoordinatesAt(p) # Null /\ ~InPaddedRegion(call.arg, CoordinatesAt(p))
    /\ Len(call.ret) = SmallStore

(***************************************************************************)
(* C18..C20: the batch loop of onMapChange, loadBatch failing              *)
(***************************************************************************)
\* callback t takes a step; the clearAll of another callback leaves nothing
\* but its note in `cleared`
StepOf(t) ==
    [tasks'[t] EXCEPT !.cleared = FALSE] # [tasks[t] EXCEPT !.cleared = FALSE]

\* callback t starts as onMapChange
MapChangeStarts(t) == tasks[t].pc = "idle" /\ tasks'[t].kind = "mapchange"

MinOfThree(a, b, c) ==
    IF a <= b /\ a <= c THEN a ELSE IF b <= c THEN b ELSE c

\* the target of the claim for zoom z and an index of total batches
ClaimedTarget(z, total) ==
    MinOfThree(initialBatches + ((z - minZoomForMore) * batchesPerZoomLevel) + 1,
               total, maxBatches)

MaxIndexTotal == maxBatches + 2

\* C18: an onMapChange at zoom z >= minZoomForMore that computes a target
\* (an index is loaded, fewer than maxBatches batches are) computes
\* min(initialBatches + floor((z - minZoomForMore) * batchesPerZoomLevel) + 1,
\* index.total_batches, maxBatches); the target does not fall when z grows;
\* and the number of loaded batches never exceeds maxBatches nor
\* index.total_batches.
C18_TargetAndCeiling ==
    /\ [](/\ Cardinality(loadedBatches) <= maxBatches
          /\ index # Null => Cardinality(loadedBatches) <= index.total_batches)
    /\ [][\A t \in Tasks :
            (/\ MapChangeStarts(t)
             /\ tasks'[t].zoom >= minZoomForMore
             /\ index # Null
             /\ Cardinality(loadedBatches) < maxBatches)
            => /\ tasks'[t].target = ClaimedTarget(tasks'[t].zoom, index.total_batches)
               /\ \A z \in minZoomForMore..mapMaxZoom, total \in 0..MaxIndexTotal :
                     /\ TargetBatches(z, total) = ClaimedTarget(z, total)
                     /\ z < mapMaxZoom
                           => TargetBatches(z, total) <= TargetBatches(z + 1, total)]_vars

\* an onMapChange above the minimum zoom whose target is the index's batch
\* count, less than the zoom alone would give, has loaded up to that count
C18_Witness ==
    \E t \in Tasks :
        /\ tasks[t].kind = "mapchange"
        /\ tasks[t].zoom > minZoomForMore
        /\ index # Null
        /\ tasks[t].target = index.total_batches
        /\ tasks[t].target
              < initialBatches + ((tasks[t].zoom - minZoomForMore) * batchesPerZoomLevel) + 1
        /\ tasks[t].i = tasks[t].target
        /\ Cardinality(loadedBatches) = index.total_batches

\* C19: no step of an onMapChange at a zoom below minZoomForMore issues a
\* batch fetch or waits in the batch loop, and none changes loadedBatches or
\* the developers of the store.
C19_NoLoadBelowMinZoom ==
    [][\A t \in Tasks :
          (/\ StepOf(t)
           /\ tasks'[t].kind = "mapchange"
           /\ tasks'[t].zoom < minZoomForMore)
          => /\ tasks'[t].pc \notin {"batch", "fallback", "pace"}
             /\ loadedBatches' = loadedBatches
             /\ allDevelopers' = allDevelopers]_vars

\* an onMapChange below the minimum zoom has returned, while an index is
\* loaded that has more batches than are loaded
C19_Witness ==
    \E t \in Tasks :
        /\ tasks[t].kind = "mapchange"
        /\ tasks[t].zoom < minZoomForMore
        /\ tasks[t].pc = "done"
        /\ index # Null
        /\ Cardinality(loadedBatches) < index.total_batches

\* the fetch of batch tasks[t].i ends in a failure that loadBatch catches
BatchFails(t) ==
    /\ tasks[t].pc \in {"batch", "fallback"}
    /\ [by |-> t, msg |-> BatchError(tasks[t].i)] \in errors' \ errors

\* the fetch of batch tasks[t].i ends with status 404: the single file is asked for
BatchNotFound(t) == tasks[t].pc = "batch" /\ tasks'[t].pc = "fallback"

\* C20: when the fetch of batch i fails, the step shows the batch error and
\* nothing else, leaves the store and loadedBatches as they were, and the
\* callback goes to the delay of its loop (a 404 goes there by way of the
\* fetch of the single file, which changes nothing either); from that delay
\* the loop goes on
\* with i + 1: it fetches batch i + 1 when that is below the target and not
\* loaded.
C20_FailedBatchIsSkipped ==
    [][\A t \in Tasks :
          /\ BatchFails(t)
                => /\ allDevelopers' = allDevelopers
                   /\ loadedBatches' = loadedBatches
                   /\ errors' = errors \cup {[by |-> t, msg |-> BatchError(tasks[t].i)]}
                   /\ tasks'[t].pc = "pace"
                   /\ tasks'[t].i = tasks[t].i
          /\ (BatchNotFound(t) \/ (tasks[t].pc = "fallback" /\ StepOf(t)))
                => /\ allDevelopers' = allDevelopers
                   /\ loadedBatches' = loadedBatches
                   /\ tasks'[t].pc \in {"fallback", "pace"}
                   /\ tasks'[t].i = tasks[t].i
          /\ (tasks[t].pc = "pace" /\ StepOf(t))
                => /\ tasks'[t].i >= tasks[t].i + 1
                   /\ (tasks[t].i + 1 < tasks[t].target /\ tasks[t].i + 1 \notin loadedBatches)
                         => tasks'[t].pc = "batch" /\ tasks'[t].i = tasks[t].i + 1]_vars

\* batch i - 1 failed for callback t, is not loaded, and t fetches batch i
C20_Witness ==
    \E t \in Tasks :
        /\ tasks[t].pc = "batch"
        /\ tasks[t].i > 0
        /\ [by |-> t, msg |-> BatchError(tasks[t].i - 1)] \in errors
        /\ (tasks[t].i - 1) \notin loadedBatches

(***************************************************************************)
(* C21..C23: loadBatch on a loaded batch, marker positions, coordinates    *)
(***************************************************************************)
\* callback t, in the loop of loadInitialData, is about to call loadBatch(n)
CallsLoadBatch(t, n) ==
    /\ tasks[t].kind \in {"load", "refresh"}
    /\ \/ /\ tasks[t].pc = "pace"
          /\ n = tasks[t].i + 1
          /\ n < tasks[t].target
       \/ /\ tasks[t].pc = "index"
          /\ n = 0
          /\ index' # Null
          /\ n < tasks'[t].target

\* C21: a step in which loadBatch(n) is called while n is in loadedBatches
\* issues no fetch (the caller is in its delay after the step) and leaves the
\* store, loadedBatches, the markers and the error messages as they were.
C21_LoadedBatchIsNoOp ==
    [][\A t \in Tasks, n \in 0..TotalBatches :
          (StepOf(t) /\ CallsLoadBatch(t, n) /\ n \in loadedBatches)
          => /\ tasks'[t].pc = "pace"
             /\ tasks'[t].i = n
             /\ allDevelopers' = allDevelopers
             /\ loadedBatches' = loadedBatches
             /\ markers' = markers
             /\ layer' = layer
             /\ errors' = errors]_vars

\* loadBatch has returned at once for a batch that another callback loaded
C21_Witness ==
    \E t \in Tasks :
        /\ tasks[t].atOnce
        /\ tasks[t].pc = "pace"
        /\ tasks[t].i \in loadedBatches

\* the markers of the sequence ms that callback t made
MarkersOf(ms, t) == {ms[k] : k \in {j \in 1..Len(ms) : ms[j].by = t}}

\* 0.001 degree, in the unit of the coordinates
Thousandth == 10

\* the 3-decimal group of every candidate of callback t, in candidate order
\* (Null for a candidate without coordinates)
GroupKeys(t) ==
    LET shown == tasks[t].shown
    IN  SubSeq([p \in 1..Len(shown) |->
                   IF coordinates[shown[p]] = Null THEN Null
                   ELSE locationKey(coordinates[shown[p]])], 1, Len(shown))

\* the 0-based place of candidate p among the candidates of its group
PlaceInGroup(keys, p) == Cardinality({q \in 1..(p - 1) : keys[q] = keys[p]})

\* the position the claim gives candidate p
ClaimedPosition(keys, p) ==
    [lat |-> keys[p].lat * Thousandth + PlaceInGroup(keys, p) * Thousandth,
     lng |-> keys[p].lng * Thousandth + PlaceInGroup(keys, p) * Thousandth]

\* what the claim has callback t place: developer, group and position
Claimed(t) ==
    LET keys == GroupKeys(t)
    IN  {[dev |-> tasks[t].shown[p], group |-> keys[p], at |-> ClaimedPosition(keys, p)] :
            p \in {q \in 1..Len(keys) : keys[q] # Null}}

\* what callback t has placed among the markers ms
Positions(ms, t) ==
    {[dev |-> m.dev, at |-> [lat |-> m.lat, lng |-> m.lng]] : m \in MarkersOf(ms, t)}

\* C22: every marker a refresh has placed belongs to one of its candidates
\* and stands at the 3-decimal coordinate of the candidate's group plus
\* i * 0.001 in latitude and in longitude, i being the candidate's 0-based
\* place in its group in candidate order; the markers of one group are at
\* pairwise distinct positions; a group is placed as a whole unless a marker
\* of it raised an error; and two refreshes with the same candidates place
\* every developer at the same position.
C22_GroupOffsets ==
    /\ \A t \in Tasks :
          LET claimed == Claimed(t)
              positions == Positions(markers, t)
              placed == {c \in claimed : [dev |-> c.dev, at |-> c.at] \in positions}
              groups == {c.group : c \in placed}
          IN  tasks[t].shown # << >>
              => /\ Cardinality(placed) = Cardinality(positions)
                 /\ Cardinality({[group |-> c.group, at |-> c.at] : c \in placed})
                       = Cardinality(placed)
                 /\ ~tasks[t].caught => placed = {c \in claimed : c.group \in groups}
    /\ \A t, u \in Tasks :
          (/\ t < u
           /\ tasks[t].pc = "done" /\ tasks[u].pc = "done"
           /\ tasks[t].shown = tasks[u].shown)
             => LET pt == Positions(tasks[t].after, t)
                    pu == Positions(tasks[u].after, u)
                    both == {x.dev : x \in pt} \cap {y.dev : y \in pu}
                IN  {x \in pt : x.dev \in both} = {y \in pu : y.dev \in both}

\* two refreshes of the same candidates have each placed three developers of
\* one group, at three positions
C22_Witness ==
    \E t, u \in Tasks :
        /\ t < u
        /\ tasks[t].pc = "done" /\ tasks[u].pc = "done"
        /\ tasks[t].shown = tasks[u].shown
        /\ \E c, d, e \in Claimed(t) :
              /\ c.group = d.group /\ d.group = e.group
              /\ c.at.lat + Thousandth = d.at.lat /\ d.at.lat + Thousandth = e.at.lat
              /\ \A x \in {c, d, e} :
                    /\ [dev |-> x.dev, at |-> x.at] \in Positions(tasks[t].after, t)
                    /\ [dev |-> x.dev, at |-> x.at] \in Positions(tasks[u].after, u)

\* C23: a developer record that has coordinates and stays in the store keeps
\* them in every step (marker refresh, fallback geocoding, batch load).
C23_CoordinatesKept ==
    [][\A p \in 1..Len(allDevelopers) :
          LET o == allDevelopers[p].dev
          IN  (/\ coordinates[o] # Null
               /\ \E q \in 1..Len(allDevelopers') : allDevelopers'[q].dev = o)
              => coordinates'[o] = coordinates[o]]_vars

\* a record that came with coordinates other than those its location
\* resolves to has been through a marker refresh, which gave it a marker,
\* and a record geocoded by one refresh has been through a later one
C23_Witness ==
    \E t, u \in Tasks, p \in 1..Len(allDevelopers) :
        LET o == allDevelopers[p].dev
        IN  /\ Fields(o).coordinates # Null
            /\ coordinates[o] = Fields(o).coordinates
            /\ coordinates[o] # Resolve(Fields(o).location)
            /\ tasks[t].pc = "done"
            /\ \E m \in MarkersOf(tasks[t].after, t) : m.dev = o
            /\ t # u
            /\ tasks[u].pc = "done"
            /\ \E m \in MarkersOf(tasks[u].after, u) :
                  m.dev # o /\ Fields(m.dev).coordinates = Null
                            /\ \E n \in MarkersOf(tasks[t].after, t) : n.dev = m.dev

(***************************************************************************)
(* C26..C30: what other callbacks can see of a refresh, fetches in flight, *)
(* geocoding groups, a marker that fails, the index that fails             *)
(***************************************************************************)
\* every candidate of callback t that has coordinates has its marker
RebuildComplete(t) ==
    \A c \in Claimed(t) : [dev |-> c.dev, at |-> c.at] \in Positions(markers, t)

\* C26: whenever a marker refresh is suspended, and so another callback can
\* run and look at the markers, the refresh has cleared nothing yet or has
\* added the whole new set.  (A suspended refresh has always cleared: the
\* clear is at the head of its try block, before its first await.)
C26_AtomicRebuild ==
    \A t \in Tasks : InUpdate(t) => RebuildComplete(t)

\* C27: at most one fetch of a batch file is in flight.
C27_OneBatchFetch ==
    Cardinality({t \in Tasks : tasks[t].pc = "batch"}) <= 1

\* the resolutions callback t has started: its calls of geocodeLocation
Started(t) == tasks[t].promises

\* the resolutions of callback t whose group has been awaited
Awaited(t) == tasks[t].gi + geocodeBatchSize

\* C28: while a refresh is in the pacing delay after a group of resolutions,
\* it has started no resolution of a later group: the resolutions it has
\* started are those of the groups it has awaited, five to a group.
C28_GroupsOfFive ==
    \A t \in Tasks : tasks[t].pc = "geodelay" => Started(t) <= Awaited(t)

\* C29: a refresh in which the marker of a developer raised an error has,
\* when it returns, the markers of all its other candidates that have
\* coordinates among the markers.
C29_OtherMarkersAdded ==
    \A t \in Tasks :
        (tasks[t].pc = "done" /\ tasks[t].caught)
        => \A c \in Claimed(t) :
              ~PopupThrows(c.dev)
                 => [dev |-> c.dev, at |-> c.at] \in Positions(tasks[t].after, t)

\* C30: when loadIndex fails in loadInitialData, the next thing the callback
\* does is fetch the single file; it does not go into the batch loop.
C30_FallbackOnIndexFailure ==
    [][\A t \in Tasks :
          (tasks[t].pc = "index" /\ tasks'[t].noIndex) => tasks'[t].pc = "file"]_vars

(***************************************************************************)
(* C24, C25: the list view                                                 *)
(***************************************************************************)
\* the developers of the store and those the list shows
StoreDevelopers == {allDevelopers[p].dev : p \in 1..Len(allDevelopers)}
Listed == {call.developerList[k] : k \in 1..Len(call.developerList)}

\* the lower-cased query is a substring of the lower-cased text of a field
QueryIn(text, searchQuery) ==
    /\ text # Null
    /\ \E k \in 0..(Len(text.chars) - Len(searchQuery)) :
          \A j \in 1..Len(searchQuery) :
              LowerChar(text.chars[k + j]) = LowerChar(searchQuery[j])

\* C24: in the list view a developer of the store is shown exactly when the
\* search query is empty or the lower-cased query is a substring of the
\* lower-cased name, login, bio, location or company of the developer.
C24_SearchFilter ==
    call.currentView = "list"
    => \A o \in StoreDevelopers :
          o \in Listed
          <=> \/ call.searchQuery = << >>
              \/ QueryIn(Profile(o).name, call.searchQuery)
              \/ QueryIn(Profile(o).login, call.searchQuery)
              \/ QueryIn(Profile(o).bio, call.searchQuery)
              \/ QueryIn(Profile(o).location, call.searchQuery)
              \/ QueryIn(Profile(o).company, call.searchQuery)

\* a query with an upper-case letter is shown some developers and not others
C24_Witness ==
    /\ call.currentView = "list"
    /\ \E j \in 1..Len(call.searchQuery) :
          LowerChar(call.searchQuery[j]) # call.searchQuery[j]
    /\ Listed # {}
    /\ Listed # StoreDevelopers

\* the value the list sorts a developer by
SortValue(o) ==
    IF Profile(o)[call.currentSort] = Null THEN 0
    ELSE Profile(o)[call.currentSort].v

\* a comes before b in the order of the list: the larger value first, on a
\* tie the one that is earlier in the store
ListedBefore(a, b) ==
    \/ SortValue(a) > SortValue(b)
    \/ SortValue(a) = SortValue(b) /\ a.pos < b.pos

\* the list is in its order and no developer left out comes before one shown
ListIsSortedPrefix(filtered) ==
    /\ Listed \subseteq filtered
    /\ \A i, j \in 1..Len(call.developerList) :
          i < j => ListedBefore(call.developerList[i], call.developerList[j])
    /\ \A o \in filtered \ Listed : \A l \in Listed : ListedBefore(l, o)

\* C25: in the list view at most displayBudget entries are rendered, and they
\* are the first of the filtered developers in descending order of the
\* selected field (a missing value counts as 0, ties in store order).
C25_DisplayBudget ==
    call.currentView = "list"
    => LET filtered == {o \in StoreDevelopers :
                           SearchMatches(o, call.searchQuery)}
       IN  /\ Len(call.developerList) <= displayBudget
           /\ Len(call.developerList) >= Cardinality(filtered)
                 \/ Len(call.developerList) = displayBudget
           /\ ListIsSortedPrefix(filtered)

(***************************************************************************)
(* C32..C35: overlapping refreshes and clearAll                            *)
(***************************************************************************)
\* C32: when no marker refresh is in progress, the markers hold at most one
\* marker for each developer and at most developersPerView markers.
C32_OneMarkerPerDeveloper ==
    (\A t \in Tasks : ~InUpdate(t))
    => /\ Len(markers) <= developersPerView
       /\ \A i, j \in 1..Len(markers) :
             i < j => Fields(markers[i].dev).login # Fields(markers[j].dev).login

\* C33: the step in which a loadBatch resumes that was fetching when clearAll
\* ran adds no developer to the store and no batch to loadedBatches.
C33_ClearedLoadAddsNothing ==
    [][\A t \in Tasks :
          (tasks[t].cleared /\ tasks[t].pc \in {"batch", "fallback"} /\ StepOf(t))
          => /\ allDevelopers' = allDevelopers
             /\ loadedBatches' = loadedBatches]_vars

\* C34: with at least showAllBelow developers in the store, every marker
\* belongs to a developer whose coordinates lie in the padded region of the
\* view of the refresh, also when the refresh has resolved the coordinates.
C34_MarkersInRegion ==
    Len(allDevelopers) >= showAllBelow
    => \A k \in 1..Len(markers) :
          /\ coordinates[markers[k].dev] # Null
          /\ InPaddedRegion(call.arg, coordinates[markers[k].dev])

\* the markers of the array and the layers of the layer group
InArray == {markers[k] : k \in 1..Len(markers)}
OnLayer == {layer[k] : k \in 1..Len(layer)}

\* C35: in every state the markers array and the layer group hold the same
\* markers, as many in the one as in the other.
C35_ArrayAndLayerAgree ==
    /\ InArray = OnLayer
    /\ Len(markers) = Len(layer)

\* markers of two overlapping refreshes are in the array, after a clearAll
C35_Witness ==
    /\ \E m, n \in InArray : m.by # n.by
    /\ \E t \in Tasks : tasks[t].kind = "refresh"
    /\ \E t \in Tasks : InUpdate(t)

(***************************************************************************)
(* C39: debounce                                                           *)
(***************************************************************************)
\* the calls of the wrapper whose arguments func has been called with
InvokedFor == {call.invoked[i].args : i \in 1..Len(call.invoked)}

\* call k is followed by another call less than wait later
FollowedSoon(k) ==
    k < Len(call.calls) /\ call.calls[k + 1] - call.calls[k] < debounceWait

\* call k ends a burst: no call follows it within wait
EndsBurst(k) ==
    k = Len(call.calls) \/ call.calls[k + 1] - call.calls[k] > debounceWait

\* C39: at most one timer of the wrapper is pending; func is never called for
\* a call that another call follows by less than wait; for a call that ends a
\* burst func is called once wait has passed, exactly once, wait after that
\* call and with its arguments.
C39_OneInvocationPerBurst ==
    /\ Cardinality(call.timers) <= 1
    /\ \A i \in 1..Len(call.invoked) :
          /\ call.invoked[i].at = call.calls[call.invoked[i].args] + debounceWait
          /\ \A j \in 1..Len(call.invoked) :
                call.invoked[j].args = call.invoked[i].args => i = j
    /\ \A k \in 1..Len(call.calls) :
          /\ FollowedSoon(k) => k \notin InvokedFor
          /\ (EndsBurst(k) /\ call.now > call.calls[k] + debounceWait)
                => k \in InvokedFor

\* a burst of three calls has ended in one call of func
C39_Witness ==
    /\ Len(call.calls) >= 3
    /\ FollowedSoon(1) /\ FollowedSoon(2) /\ EndsBurst(3)
    /\ call.calls[3] > call.calls[1]
    /\ InvokedFor = {3}
    /\ call.timers = {}

(***************************************************************************)
(* C31, C36, C37, C38: the download script                                 *)
(***************************************************************************)
\* the logins of the batch files on disk
OnDisk ==
    UNION {{call.batchFiles[n][k] : k \in 1..Len(call.batchFiles[n])} :
              n \in DOMAIN call.batchFiles}

\* C31: every batch file on disk holds at most developersPerFile developers.
C31_BatchFileSize ==
    \A n \in DOMAIN call.batchFiles : Len(call.batchFiles[n]) <= developersPerFile

\* fetchDevelopersForQuery is running
InFetch == call.pc \in {"page", "retry", "limit"}

\* C36: a fetchDevelopersForQuery that has started returns (or the process
\* ends), whatever the search requests answer.
C36_FetchTerminates == [](InFetch => <>(~InFetch))

\* C37: the developers found by a query that progress.json on disk marks as
\* processed are in a batch file on disk.
C37_ProcessedIsPersisted ==
    call.progressFile # Null
    => \A q \in call.progressFile.processedQueries : call.found[q] \subseteq OnDisk

\* C38: no login is in the batch files on disk more than once.
C38_NoLoginTwice ==
    Cardinality(OnDisk) = TotalInBatches(call.batchFiles, DOMAIN call.batchFiles)

====
